---- MODULE Spec2Model ----
(***************************************************************************)
(* Model of the kosong merge engine (generate), the step coordinator       *)
(* (step / StepResult.tool_results) and the KimiToolset dispatcher.        *)
(*                                                                         *)
(* Python strings are sequences of characters; the value None of an        *)
(* optional string is the one-element sequence NoneStr, which no string    *)
(* over the alphabets used here equals.                                    *)
(***************************************************************************)
EXTENDS Integers, Sequences, FiniteSets, TLC

VARIABLES
    pc,                  \* where step()/generate() is: streaming, draining, raised, returned
    error,               \* the exception step()/generate() raises ("none" while there is none)
    caught,              \* the exception the except clause of step() caught ("none": none)
    stream,              \* history: the parts the provider stream has yielded so far
    observed,            \* history: the parts handed to on_message_part
    message,             \* generate(): the assistant Message being built
    pending_part,        \* generate(): pending_part
    crossings,           \* history: the number of merge_in_place calls that returned False
    gpc,                 \* generate(): where the loop body is: pull, observe, merge, callback
    tool_calls,          \* step(): tool_calls
    tool_result_futures, \* step(): tool_result_futures, tool-call id -> handle (0: no entry)
    handles,             \* every future/task created by on_tool_call, in creation order
    trPc,                \* tool_results(): idle, awaiting, cleanup, done
    trIdx,               \* tool_results(): position of the for loop in tool_calls
    results,             \* tool_results(): results
    trOutcome,           \* how the last tool_results() call ended
    nCollects,           \* number of tool_results() calls started
    first_return,        \* history: the list the first tool_results() that returned gave
    approval_future,     \* ApprovalRequest._future of each request
    resolve_calls,       \* history: the resolve() calls made on each request
    wait_returned,       \* what wait() returned for each request ("none": not yet)
    mcp_pc,              \* MCPTool.__call__ of each tool call: idle, approval, calling, done
    mcp_outcome,         \* history: what client.call_tool did in each tool call
    mcp_handle,          \* the task KimiToolset.handle created for each MCP tool call
    mcp_answer,          \* history: what approval.request returned in each tool call
    mcp_called,          \* history: whether client.call_tool was called in each tool call
    codec_registry,      \* _NAME_TO_WIRE_MESSAGE_TYPE
    codec_log,           \* the wire file: its {type, payload} records, in order
    codec_sent,          \* history: the message each record was encoded from (NoMsg: none)
    codec_replayed,      \* what decoding each record replayed so far raised or returned
    run_pc,              \* run_soul: init, running, cancelling, finally, shutdown
    ui_pc,               \* the ui task: idle, receiving, ended, cancelled
    wire_merge,          \* the merge mode of the consumer side
    wire_shut,           \* the Wire: "no", or the mode it was shut down in
    merge_buffer,        \* the merge buffer of the Wire (NoPart: empty)
    bq_queues,           \* BroadcastQueue._queues
    wire_queue,          \* the Queue of each subscription
    wire_sends,          \* history: every send attempted, and whether it raised
    wire_published,      \* history: the messages put on the queue, in order
    wire_received,       \* history: the messages the consumer received, in order
    wire_snapshot,   \* history: what was received, published and sent at shutdown
    denwa_renji,         \* the DenwaRenji: _pending_dmail and _n_checkpoints
    dmail_calls,         \* history: the calls made on the DenwaRenji, in order
    bc_subscribed,       \* BroadcastQueue._queues, as the ids of its queues
    bc_queue,            \* the Queue of each subscriber
    bc_published,        \* history: the calls of publish and publish_nowait, in order
    bc_put,              \* history: the items put on each queue, in order
    bc_window,           \* history: how many items were published at subscribe and at unsubscribe
    bc_got,              \* history: the items each subscriber took from its queue
    ctx_entered,         \* whether the task that runs the step has started
    ctx_dispatcher,      \* the context of the task that calls handle()
    ctx_dispatched,      \* history: each handle() call, the context of its task and the lookups made in it
    mcp_servers,         \* KimiToolset._mcp_servers, in insertion order
    mcp_loading_task,    \* KimiToolset._mcp_loading_task: none, or the state of the task
    mcp_load,            \* load_mcp_tools: init, connecting, returned, raised
    cleanup_pc,          \* cleanup(): idle, awaiting, closing, returned, raised
    rs_pc,               \* run_soul: init, waiting, awaiting_soul, awaiting_cancel_event_task, awaiting_ui, returned, raised
    rs_error,            \* what run_soul raised ("none": nothing)
    rs_inflight,         \* the exception in flight while the finally clause runs
    soul_task,           \* soul_task: running, cancelling, or how it ended
    ui_task,             \* ui_task: running, or how it ended
    cancel_event,        \* cancel_event.is_set()
    cancel_event_task,   \* cancel_event_task: waiting, returned, cancelled
    rs_wire,             \* the Wire of run_soul: none, open, shut
    current_wire,        \* _current_wire: previous (the binding before the call) or wire
    rs_history           \* history: when the event fired, whether the soul was cancelled, the soul at shutdown

vars == <<pc, error, caught, stream, observed, message, pending_part, crossings, gpc,
          tool_calls, tool_result_futures, handles, trPc, trIdx, results, trOutcome,
          nCollects, first_return, approval_future, resolve_calls, wait_returned,
          mcp_pc, mcp_outcome, mcp_handle, mcp_answer, mcp_called,
          codec_registry, codec_log, codec_sent, codec_replayed,
          run_pc, ui_pc, wire_merge, wire_shut, merge_buffer, bq_queues, wire_queue,
          wire_sends, wire_published, wire_received, wire_snapshot,
          denwa_renji, dmail_calls,
          bc_subscribed, bc_queue, bc_published, bc_put, bc_window, bc_got,
          ctx_entered, ctx_dispatcher, ctx_dispatched,
          mcp_servers, mcp_loading_task, mcp_load, cleanup_pc,
          rs_pc, rs_error, rs_inflight, soul_task, ui_task, cancel_event, cancel_event_task, rs_wire, current_wire, rs_history>>

genVars == <<stream, observed, message, pending_part, crossings, gpc>>
approvalVars == <<approval_future, resolve_calls, wait_returned>>
mcpVars == <<mcp_pc, mcp_outcome, mcp_handle, mcp_answer, mcp_called>>
codecVars == <<codec_registry, codec_log, codec_sent, codec_replayed>>
wireVars == <<run_pc, ui_pc, wire_merge, wire_shut, merge_buffer, bq_queues, wire_queue,
              wire_sends, wire_published, wire_received, wire_snapshot>>
stepVars == <<tool_calls, tool_result_futures, handles>>
collectVars == <<trPc, trIdx, results, trOutcome, nCollects, first_return>>
kosongVars == <<pc, error, caught, genVars, stepVars, collectVars>>
denwaVars == <<denwa_renji, dmail_calls>>
bcastVars == <<bc_subscribed, bc_queue, bc_published, bc_put, bc_window, bc_got>>
ctxVars == <<ctx_entered, ctx_dispatcher, ctx_dispatched>>
cleanupVars == <<mcp_servers, mcp_loading_task, mcp_load, cleanup_pc>>
runVars == <<rs_pc, rs_error, rs_inflight, soul_task, ui_task, cancel_event, cancel_event_task, rs_wire, current_wire, rs_history>>

\* the variables each part of the model leaves alone
nonKosongVars == <<approvalVars, mcpVars, codecVars, wireVars, denwaVars, bcastVars, ctxVars, cleanupVars, runVars>>
nonApprovalVars == <<kosongVars, mcpVars, codecVars, wireVars, denwaVars, bcastVars, ctxVars, cleanupVars, runVars>>
nonMcpVars == <<kosongVars, approvalVars, codecVars, wireVars, denwaVars, bcastVars, ctxVars, cleanupVars, runVars>>
nonCodecVars == <<kosongVars, approvalVars, mcpVars, wireVars, denwaVars, bcastVars, ctxVars, cleanupVars, runVars>>
nonWireVars == <<kosongVars, approvalVars, mcpVars, codecVars, denwaVars, bcastVars, ctxVars, cleanupVars, runVars>>
nonDenwaVars == <<kosongVars, approvalVars, mcpVars, codecVars, wireVars, bcastVars, ctxVars, cleanupVars, runVars>>
nonBcastVars == <<kosongVars, approvalVars, mcpVars, codecVars, wireVars, denwaVars, ctxVars, cleanupVars, runVars>>
nonCtxVars == <<kosongVars, approvalVars, mcpVars, codecVars, wireVars, denwaVars, bcastVars, cleanupVars, runVars>>
nonCleanupVars == <<kosongVars, approvalVars, mcpVars, codecVars, wireVars, denwaVars, bcastVars, ctxVars, runVars>>
nonRunVars == <<kosongVars, approvalVars, mcpVars, codecVars, wireVars, denwaVars, bcastVars, ctxVars, cleanupVars>>

(***************************************************************************)
(* Bounds                                                                  *)
(***************************************************************************)
MaxParts == 3        \* parts a provider stream yields within one step()
MaxGenParts == 3     \* parts a provider stream yields within one bare generate()
MaxCollects == 2     \* calls of tool_results() on one StepResult
MaxResolves == 2     \* calls of resolve() on one ApprovalRequest
MaxRecords == 2      \* records of one wire file
MaxDepth == 2        \* SubagentEvents wrapped around one event
MaxSends == 3
MaxDMailCalls == 4
MaxCheckpoints == 2
MaxPublishes == 2
MaxDispatches == 3
MaxLookups == 2
MaxServers == 2        \* sends attempted on one Wire

(***************************************************************************)
(* Strings                                                                 *)
(***************************************************************************)
NoneStr == <<"None">>

\* Python truthiness of `str | None`
Truthy(s) == s # NoneStr /\ s # <<>>

\* `s or ""`
OrEmpty(s) == IF Truthy(s) THEN s ELSE <<>>

(***************************************************************************)
(* Streamed message parts (kosong/message.py)                              *)
(***************************************************************************)
NoPart == [kind |-> "none"]

TextPart(text) == [kind |-> "text", text |-> text]
ThinkPart(think, encrypted) == [kind |-> "think", think |-> think, encrypted |-> encrypted]
ImageURLPart(url) == [kind |-> "image_url", url |-> url]
ToolCall(id, name, arguments) ==
    [kind |-> "tool_call", id |-> id, name |-> name, arguments |-> arguments]
ToolCallPart(arguments_part) == [kind |-> "tool_call_part", arguments_part |-> arguments_part]

IsContentPart(p) == p.kind \in {"text", "think", "image_url"}
IsToolCall(p) == p.kind = "tool_call"

\* merge_in_place returns [ok, self]: the bool it returns and self afterwards.
MergeableMixin_merge_in_place(self, other) == [ok |-> FALSE, self |-> self]

\* faulty variant: the new text is put before the accumulated text
TextPart_merge_in_place_prepends(self, other) ==
    IF other.kind # "text"
    THEN [ok |-> FALSE, self |-> self]
    ELSE [ok |-> TRUE, self |-> [self EXCEPT !.text = other.text \o self.text]]

TextPart_merge_in_place(self, other) ==
    IF other.kind # "text"
    THEN [ok |-> FALSE, self |-> self]
    ELSE [ok |-> TRUE, self |-> [self EXCEPT !.text = self.text \o other.text]]

\* faulty variant: a think part that already has its encrypted value still merges
ThinkPart_merge_in_place_ignores_encrypted(self, other) ==
    IF other.kind # "think" THEN [ok |-> FALSE, self |-> self]
    ELSE [ok |-> TRUE,
          self |-> [self EXCEPT !.think = self.think \o other.think,
                                !.encrypted = IF Truthy(other.encrypted)
                                              THEN other.encrypted
                                              ELSE self.encrypted]]

ThinkPart_merge_in_place(self, other) ==
    IF other.kind # "think" THEN [ok |-> FALSE, self |-> self]
    ELSE IF Truthy(self.encrypted) THEN [ok |-> FALSE, self |-> self]
    ELSE [ok |-> TRUE,
          self |-> [self EXCEPT !.think = self.think \o other.think,
                                !.encrypted = IF Truthy(other.encrypted)
                                              THEN other.encrypted
                                              ELSE self.encrypted]]

\* faulty variant: the accumulated arguments are overwritten by the delta, not extended
ToolCall_merge_in_place_overwrites(self, other) ==
    IF other.kind # "tool_call_part" THEN [ok |-> FALSE, self |-> self]
    ELSE [ok |-> TRUE, self |-> [self EXCEPT !.arguments = other.arguments_part]]

ToolCall_merge_in_place(self, other) ==
    IF other.kind # "tool_call_part" THEN [ok |-> FALSE, self |-> self]
    ELSE [ok |-> TRUE,
          self |-> [self EXCEPT !.arguments =
                        IF self.arguments = NoneStr
                        THEN other.arguments_part
                        ELSE self.arguments \o OrEmpty(other.arguments_part)]]

ToolCallPart_merge_in_place(self, other) ==
    IF other.kind # "tool_call_part" THEN [ok |-> FALSE, self |-> self]
    ELSE [ok |-> TRUE,
          self |-> [self EXCEPT !.arguments_part =
                        IF self.arguments_part = NoneStr
                        THEN other.arguments_part
                        ELSE self.arguments_part \o OrEmpty(other.arguments_part)]]

\* faulty variant: ToolCall does not override merge_in_place
merge_in_place_no_tool_call(self, other) ==
    CASE self.kind = "text" -> TextPart_merge_in_place(self, other)
      [] self.kind = "think" -> ThinkPart_merge_in_place(self, other)
      [] self.kind = "tool_call_part" -> ToolCallPart_merge_in_place(self, other)
      [] OTHER -> MergeableMixin_merge_in_place(self, other)

\* dynamic dispatch of pending_part.merge_in_place(part)
merge_in_place(self, other) ==
    CASE self.kind = "text" -> TextPart_merge_in_place(self, other)
      [] self.kind = "think" -> ThinkPart_merge_in_place(self, other)
      [] self.kind = "tool_call" -> ToolCall_merge_in_place(self, other)
      [] self.kind = "tool_call_part" -> ToolCallPart_merge_in_place(self, other)
      [] OTHER -> MergeableMixin_merge_in_place(self, other)

\* Message(role="assistant", content=[]); tool_calls None is the empty sequence
EmptyMessage == [content |-> <<>>, tool_calls |-> <<>>]

\* faulty variant: the default case keeps an orphaned ToolCallPart as content
message_append_keeps_orphan(msg, part) ==
    IF IsToolCall(part) THEN [msg EXCEPT !.tool_calls = Append(msg.tool_calls, part)]
    ELSE [msg EXCEPT !.content = Append(msg.content, part)]

message_append(msg, part) ==
    IF IsContentPart(part) THEN [msg EXCEPT !.content = Append(msg.content, part)]
    ELSE IF IsToolCall(part) THEN [msg EXCEPT !.tool_calls = Append(msg.tool_calls, part)]
    ELSE msg

(***************************************************************************)
(* Inputs: what a provider stream can yield                                *)
(***************************************************************************)
ToolCallIds == {"c1", "c2"}
ToolNames == {"t", "u"}

\* parts of a stream consumed by a bare generate()
GenParts ==
    {TextPart(t) : t \in {<<"a">>, <<"b">>}}
    \cup {ThinkPart(t, e) : t \in {<<"a">>, <<"b">>}, e \in {NoneStr, <<"s">>}}
    \cup {ThinkPart(<<"a">>, <<>>)}
    \cup {ImageURLPart(<<"i">>)}
    \cup {ToolCall(i, n, a) : i \in ToolCallIds, n \in {"t"}, a \in {NoneStr, <<"{">>}}
    \cup {ToolCall("c2", "u", <<>>)}
    \cup {ToolCallPart(a) : a \in {NoneStr, <<"{">>, <<"}">>}}

\* parts of a stream consumed by step()
StepParts ==
    {TextPart(<<"a">>)}
    \cup {ToolCall(i, n, a) : i \in ToolCallIds, n \in ToolNames, a \in {NoneStr, <<"{">>}}
    \cup {ToolCallPart(<<"}">>)}

(***************************************************************************)
(* KimiToolset.handle (kimi_cli/soul/toolset.py)                           *)
(***************************************************************************)
\* self._tool_dict: the registered tool names
tool_dict == {"t"}

\* json.loads succeeds: over the alphabet { } the only JSON text is {}
json_loads_ok(s) == s = <<"{", "}">>

\* a future or task: state is pending, cancelling (a task whose cancellation
\* has been requested and not yet delivered), resolved, cancelled or failed
Handle(id, task, state, return_value) ==
    [id |-> id, task |-> task, state |-> state, return_value |-> return_value,
     callback |-> TRUE, notified |-> 0, faulted |-> FALSE]

Terminal == {"resolved", "cancelled", "failed"}

\* faulty variant: the arguments are not parsed before the task is created
handle_skips_parse(tool_call) ==
    IF tool_call.name \notin tool_dict
    THEN [immediate |-> TRUE, return_value |-> "ToolNotFoundError"]
    ELSE [immediate |-> FALSE, return_value |-> "none"]

\* HandleResult: an immediate ToolResult (immediate = TRUE) or a task running _call()
handle(tool_call) ==
    IF tool_call.name \notin tool_dict
    THEN [immediate |-> TRUE, return_value |-> "ToolNotFoundError"]
    ELSE IF ~json_loads_ok(IF Truthy(tool_call.arguments)
                           THEN tool_call.arguments ELSE <<"{", "}">>)
    THEN [immediate |-> TRUE, return_value |-> "ToolParseError"]
    ELSE [immediate |-> FALSE, return_value |-> "none"]

\* faulty variant: _call() without its except clause
call_end_unguarded(h, raised, ret) ==
    IF raised
    THEN [h EXCEPT !.state = "failed", !.faulted = TRUE]
    ELSE [h EXCEPT !.state = "resolved", !.return_value = ret]

\* _call(): the end of the task, when tool.call returned ret (raised = FALSE)
\* or raised an Exception (raised = TRUE)
call_end(h, raised, ret) ==
    IF raised
    THEN [h EXCEPT !.state = "resolved", !.return_value = "ToolRuntimeError",
                   !.faulted = TRUE]
    ELSE [h EXCEPT !.state = "resolved", !.return_value = ret]

(***************************************************************************)
(* step (kosong/__init__.py)                                               *)
(***************************************************************************)
\* faulty variant: on_tool_result is called however the future ended
future_done_callback_on_any_end(h) ==
    IF h.callback
    THEN [h EXCEPT !.notified = h.notified + 1]
    ELSE h

\* future_done_callback, run when h has just become done: on_tool_result is
\* called with the result unless future.result() raises
future_done_callback(h) ==
    IF h.callback /\ h.state = "resolved"
    THEN [h EXCEPT !.notified = h.notified + 1]
    ELSE h

\* faulty variant: a done future is cancelled too
cancel_also_when_done(h) ==
    IF h.state \in {"pending", "resolved"}
    THEN [h EXCEPT !.state = IF h.task /\ h.state = "pending"
                             THEN "cancelling" ELSE "cancelled"]
    ELSE h

\* Future.cancel() / Task.cancel(): nothing on a done future
cancel(h) ==
    IF h.state = "pending"
    THEN [h EXCEPT !.state = IF h.task THEN "cancelling" ELSE "cancelled"]
    ELSE h

\* the handles tool_result_futures.values() holds
Owned(futures) == {futures[i] : i \in ToolCallIds} \ {0}

\* on_tool_call(tool_call): the step variables after it
on_tool_call(tool_call) ==
    LET r == handle(tool_call)
        future == IF r.immediate
                  THEN future_done_callback(
                           Handle(tool_call.id, FALSE, "resolved", r.return_value))
                  ELSE Handle(tool_call.id, TRUE, "pending", "none")
    IN /\ tool_calls' = Append(tool_calls, tool_call)
       /\ handles' = Append(handles, future)
       /\ tool_result_futures' =
              [tool_result_futures EXCEPT ![tool_call.id] = Len(handles) + 1]

\* faulty variant: the futures are not cancelled
cancel_all_no_cancel(hs, futures, remove_callback) ==
    [h \in DOMAIN hs |->
        IF h \in Owned(futures)
        THEN [hs[h] EXCEPT !.callback = @ /\ ~remove_callback]
        ELSE hs[h]]

\* `for future in futures.values(): [future.remove_done_callback(...);] future.cancel()`
cancel_all(hs, futures, remove_callback) ==
    [h \in DOMAIN hs |->
        IF h \in Owned(futures)
        THEN cancel([hs[h] EXCEPT !.callback = @ /\ ~remove_callback])
        ELSE hs[h]]

\* faulty variant: the gather is not awaited
gathered_unawaited(hs, futures) == TRUE

\* asyncio.gather(*futures.values(), return_exceptions=True) has completed
gathered(hs, futures) == \A h \in Owned(futures) : hs[h].state \in Terminal

(***************************************************************************)
(* generate (kosong/_generate.py), with step's on_tool_call when            *)
(* dispatching, and without an on_tool_call callback otherwise             *)
(***************************************************************************)
\* faulty variant: the finalized tool call is not handed to on_tool_call
finalize_without_dispatch(part, dispatching) ==
    /\ message' = message_append(message, part)
    /\ UNCHANGED stepVars

finalize(part, dispatching) ==
    /\ message' = message_append(message, part)
    /\ IF IsToolCall(part) /\ dispatching
       THEN on_tool_call(part)
       ELSE UNCHANGED stepVars

\* faulty variant: on_tool_call is called when the tool call arrives, not when
\* it is appended to the message
generate_part_dispatches_on_arrival(part, dispatching) ==
    /\ stream' = Append(stream, part)
    /\ observed' = Append(observed, part)
    /\ UNCHANGED gpc
    /\ IF IsToolCall(part) /\ dispatching
       THEN on_tool_call(part)
       ELSE UNCHANGED stepVars
    /\ IF pending_part = NoPart
       THEN /\ pending_part' = part
            /\ UNCHANGED <<message, crossings>>
       ELSE LET r == merge_in_place(pending_part, part) IN
            IF r.ok
            THEN /\ pending_part' = r.self
                 /\ UNCHANGED <<message, crossings>>
            ELSE /\ message' = message_append(message, pending_part)
                 /\ pending_part' = part
                 /\ crossings' = crossings + 1

\* one iteration of `async for part in stream`
generate_part(part, dispatching) ==
    /\ stream' = Append(stream, part)
    /\ observed' = Append(observed, part)
    /\ UNCHANGED gpc
    /\ IF pending_part = NoPart
       THEN /\ pending_part' = part
            /\ UNCHANGED <<message, crossings, stepVars>>
       ELSE LET r == merge_in_place(pending_part, part) IN
            IF r.ok
            THEN /\ pending_part' = r.self
                 /\ UNCHANGED <<message, crossings, stepVars>>
            ELSE /\ finalize(pending_part, dispatching)
                 /\ pending_part' = part
                 /\ crossings' = crossings + 1

\* faulty variant: the pending part is not flushed when the stream ends
generate_end_no_flush(dispatching) ==
    /\ UNCHANGED <<message, stepVars>>
    /\ UNCHANGED <<stream, observed, pending_part, crossings, gpc>>

\* the stream is exhausted: flush, then the EmptyResponse test
generate_end(dispatching) ==
    /\ IF pending_part # NoPart
       THEN finalize(pending_part, dispatching)
       ELSE UNCHANGED <<message, stepVars>>
    /\ UNCHANGED <<stream, observed, pending_part, crossings, gpc>>

EmptyResponse(msg) == Len(msg.content) = 0 /\ Len(msg.tool_calls) = 0

(***************************************************************************)
(* MCPTool (kimi_cli/soul/toolset.py)                                      *)
(***************************************************************************)
\* str.lower() on the letters the messages below use
lower_char(c) ==
    CASE c = "T" -> "t" [] c = "I" -> "i" [] c = "M" -> "m" [] c = "E" -> "e"
      [] c = "O" -> "o" [] c = "U" -> "u" [] c = "D" -> "d" [] c = "R" -> "r"
      [] OTHER -> c

str_lower(str) == [i \in DOMAIN str |-> lower_char(str[i])]

\* `sub in str`
str_contains(str, sub) ==
    \E i \in 1..(Len(str) - Len(sub) + 1) : SubSeq(str, i, i + Len(sub) - 1) = sub

\* the messages of the exceptions fastmcp raises when the deadline of
\* call_tool expires
DeadlineMessages ==
    {<<"T", "i", "m", "e", "d", " ", "o", "u", "t">>,
     <<"R", "e", "a", "d", "T", "i", "m", "e", "o", "u", "t">>,
     <<"T", "I", "M", "E", "O", "U", "T">>,
     <<"t", "i", "m", "e", "o", "u", "t">>}

\* the messages of the other exceptions call_tool raises
OtherMessages ==
    {<<"r", "e", "f", "u", "s", "e", "d">>,
     <<"t", "i", "m", "e", " ", "o", "u", "t">>,
     <<>>}

NoOutcome == [kind |-> "none", deadline |-> FALSE, message |-> <<>>,
              is_error |-> FALSE, convertible |-> TRUE]

\* what `await client.call_tool(..., raise_on_error=False)` does: it returns a
\* CallToolResult or raises an Exception
CallToolOutcomes ==
    {[kind |-> "result", deadline |-> FALSE, message |-> <<>>,
      is_error |-> e, convertible |-> c] : e \in BOOLEAN, c \in BOOLEAN}
    \cup {[kind |-> "exception", deadline |-> TRUE, message |-> m,
           is_error |-> FALSE, convertible |-> TRUE] : m \in DeadlineMessages}
    \cup {[kind |-> "exception", deadline |-> FALSE, message |-> m,
           is_error |-> FALSE, convertible |-> TRUE] : m \in OtherMessages}

\* str(e) of the ValueError convert_mcp_content raises
ValueErrorMessage == <<"U", "n", "s", "u", "p", "p", "o", "r", "t", "e", "d">>

\* convert_mcp_tool_result: ValueError for an unsupported content part
convert_mcp_tool_result(result) ==
    IF ~result.convertible THEN [raised |-> TRUE, ret |-> "none"]
    ELSE [raised |-> FALSE, ret |-> IF result.is_error THEN "ToolError" ELSE "ToolOk"]

\* faulty variant: the message is tested as it is, not in lower case
MCPTool_call_case_sensitive(approved, outcome) ==
    IF ~approved THEN [raised |-> FALSE, ret |-> "ToolRejectedError"]
    ELSE LET converted == convert_mcp_tool_result(outcome)
             e == IF outcome.kind = "exception" THEN outcome.message
                  ELSE ValueErrorMessage
             exc_msg == e
         IN  IF outcome.kind = "result" /\ ~converted.raised THEN converted
             ELSE IF \/ str_contains(exc_msg, <<"t", "i", "m", "e", "o", "u", "t">>)
                     \/ str_contains(exc_msg, <<"t", "i", "m", "e", "d", " ", "o", "u", "t">>)
                  THEN [raised |-> FALSE, ret |-> "Timeout"]
                  ELSE [raised |-> TRUE, ret |-> "none"]

\* MCPTool.__call__: what it returns (raised = FALSE) or that it raises; the
\* except clause also sees the ValueError of convert_mcp_tool_result
MCPTool_call(approved, outcome) ==
    IF ~approved THEN [raised |-> FALSE, ret |-> "ToolRejectedError"]
    ELSE LET converted == convert_mcp_tool_result(outcome)
             e == IF outcome.kind = "exception" THEN outcome.message
                  ELSE ValueErrorMessage
             exc_msg == str_lower(e)
         IN  IF outcome.kind = "result" /\ ~converted.raised THEN converted
             ELSE IF \/ str_contains(exc_msg, <<"t", "i", "m", "e", "o", "u", "t">>)
                     \/ str_contains(exc_msg, <<"t", "i", "m", "e", "d", " ", "o", "u", "t">>)
                  THEN [raised |-> FALSE, ret |-> "Timeout"]
                  ELSE [raised |-> TRUE, ret |-> "none"]

(***************************************************************************)
(* ApprovalRequest (kimi_cli/wire/message.py)                              *)
(***************************************************************************)
RequestIds == {"r1", "r2"}

\* ApprovalRequest.Response
Responses == {"approve", "approve_for_session", "reject"}

\* asyncio.Future(): pending, with no result
Future == [state |-> "pending", result |-> "none"]

(***************************************************************************)
(* Wire messages and WireMessageEnvelope (kimi_cli/wire/message.py)        *)
(*                                                                         *)
(* A message object is a record whose kind is its Python class; its JSON   *)
(* dump is a record of its fields, which has no kind.  A value of a union  *)
(* type carries the alternative it is: [str |-> s] or [list |-> l] for     *)
(* `str | list[ContentPart]`, [none |-> TRUE] or [float |-> hundredths]    *)
(* for `float | None`.                                                     *)
(***************************************************************************)
PyStr(s) == [str |-> s]
PyList(l) == [list |-> l]
PyNone == [none |-> TRUE]
PyFloat(hundredths) == [float |-> hundredths]

NoMsg == [kind |-> "none"]

TurnBegin(user_input) == [kind |-> "TurnBegin", user_input |-> user_input]
StepBegin(n) == [kind |-> "StepBegin", n |-> n]
StepInterrupted == [kind |-> "StepInterrupted"]
CompactionBegin == [kind |-> "CompactionBegin"]
CompactionEnd == [kind |-> "CompactionEnd"]
StatusUpdate(context_usage, message_id) ==
    [kind |-> "StatusUpdate", context_usage |-> context_usage,
     token_usage |-> PyNone, message_id |-> message_id]
WireToolResult(tool_call_id, return_value) ==
    [kind |-> "ToolResult", tool_call_id |-> tool_call_id, return_value |-> return_value]
SubagentEvent(task_tool_call_id, event) ==
    [kind |-> "SubagentEvent", task_tool_call_id |-> task_tool_call_id, event |-> event]
\* future: the state of the request's private _future
ApprovalRequest(id, tool_call_id, future) ==
    [kind |-> "ApprovalRequest", id |-> id, tool_call_id |-> tool_call_id,
     sender |-> <<"s">>, action |-> <<"a">>, description |-> <<"d">>,
     display |-> <<>>, future |-> future]
ApprovalRequestResolved(request_id, response) ==
    [kind |-> "ApprovalRequestResolved", request_id |-> request_id, response |-> response]

\* type(msg).__name__
class_name(msg) ==
    CASE msg.kind = "text" -> "TextPart"
      [] msg.kind = "think" -> "ThinkPart"
      [] msg.kind = "image_url" -> "ImageURLPart"
      [] msg.kind = "tool_call" -> "ToolCall"
      [] msg.kind = "tool_call_part" -> "ToolCallPart"
      [] OTHER -> msg.kind

ContentPartClasses == {"TextPart", "ThinkPart", "ImageURLPart"}

\* issubclass(cls, typ) over the classes of the wire messages
issubclass(cls, typ) == cls = typ \/ (typ = "ContentPart" /\ cls \in ContentPartClasses)

\* _EVENT_TYPES, _REQUEST_TYPES, _WIRE_MESSAGE_TYPES: the unions, in order
EVENT_TYPES ==
    <<"TurnBegin", "StepBegin", "StepInterrupted", "CompactionBegin", "CompactionEnd",
      "StatusUpdate", "ContentPart", "ToolCall", "ToolCallPart", "ToolResult",
      "SubagentEvent", "ApprovalRequestResolved">>
REQUEST_TYPES == <<"ApprovalRequest">>
WIRE_MESSAGE_TYPES == EVENT_TYPES \o REQUEST_TYPES

is_event(msg) == \E i \in DOMAIN EVENT_TYPES : issubclass(class_name(msg), EVENT_TYPES[i])

\* _NAME_TO_WIRE_MESSAGE_TYPE: cls.__name__ -> cls (a class is its name here)
NAME_TO_WIRE_MESSAGE_TYPE ==
    [name \in {WIRE_MESSAGE_TYPES[i] : i \in DOMAIN WIRE_MESSAGE_TYPES} |-> name]

\* ContentPart.__content_part_registry: the value of `type` -> the subclass
content_part_registry ==
    [t \in {"text", "think", "image_url"} |->
        CASE t = "text" -> "TextPart" [] t = "think" -> "ThinkPart"
          [] OTHER -> "ImageURLPart"]

\* faulty variant: the tag is the name of the message's own class
wire_typename_of_class(msg) == class_name(msg)

\* from_wire_message, the loop: the first registry name whose type the message
\* is an instance of ("none": the assertion fails)
wire_typename(msg) ==
    LET hits == {i \in DOMAIN WIRE_MESSAGE_TYPES :
                    issubclass(class_name(msg), WIRE_MESSAGE_TYPES[i])}
    IN  IF hits = {} THEN "none"
        ELSE WIRE_MESSAGE_TYPES[CHOOSE i \in hits : \A j \in hits : i <= j]

RECURSIVE model_dump(_)
RECURSIVE from_wire_message(_)
RECURSIVE model_validate(_, _, _)
RECURSIVE to_wire_message(_, _)

\* faulty variant: the inner event is dumped as its fields, without an envelope
SubagentEvent_serialize_event_flat(event) == model_dump(event)

\* SubagentEvent._serialize_event: the inner event's envelope, dumped
SubagentEvent_serialize_event(event) == from_wire_message(event)

\* kosong.tooling.ToolResult is {tool_call_id, outcome}
ToolResult_model_dump(msg) ==
    [tool_call_id |-> msg.tool_call_id, return_value |-> msg.return_value]

\* msg.model_dump(mode="json"): the fields, by class; private attributes and
\* the class itself are not dumped
model_dump(msg) ==
    CASE msg.kind = "TurnBegin" ->
           [user_input |->
              IF "str" \in DOMAIN msg.user_input THEN msg.user_input
              ELSE [list |-> [i \in DOMAIN msg.user_input.list |->
                                 model_dump(msg.user_input.list[i])]]]
      [] msg.kind = "StepBegin" -> [n |-> msg.n]
      [] msg.kind \in {"StepInterrupted", "CompactionBegin", "CompactionEnd"} ->
           [x \in {} |-> TRUE]
      [] msg.kind = "StatusUpdate" ->
           [context_usage |-> msg.context_usage, token_usage |-> msg.token_usage,
            message_id |-> msg.message_id]
      [] msg.kind = "text" -> [type |-> "text", text |-> msg.text]
      [] msg.kind = "think" ->
           [type |-> "think", think |-> msg.think, encrypted |-> msg.encrypted]
      [] msg.kind = "image_url" ->
           [type |-> "image_url", image_url |-> [url |-> msg.url, id |-> NoneStr]]
      [] msg.kind = "tool_call" ->
           [type |-> "function", id |-> msg.id,
            function |-> [name |-> msg.name, arguments |-> msg.arguments],
            extras |-> PyNone]
      [] msg.kind = "tool_call_part" -> [arguments_part |-> msg.arguments_part]
      [] msg.kind = "ToolResult" -> ToolResult_model_dump(msg)
      [] msg.kind = "SubagentEvent" ->
           [task_tool_call_id |-> msg.task_tool_call_id,
            event |-> SubagentEvent_serialize_event(msg.event)]
      [] msg.kind = "ApprovalRequest" ->
           [id |-> msg.id, tool_call_id |-> msg.tool_call_id, sender |-> msg.sender,
            action |-> msg.action, description |-> msg.description,
            display |-> msg.display]
      [] msg.kind = "ApprovalRequestResolved" ->
           [request_id |-> msg.request_id, response |-> msg.response]

\* WireMessageEnvelope.from_wire_message
from_wire_message(msg) == [type |-> wire_typename(msg), payload |-> model_dump(msg)]

Ok(msg) == [raised |-> "none", msg |-> msg]
Raise(e) == [raised |-> e, msg |-> NoMsg]

\* payload has every field of `required`
has_fields(payload, required) == required \subseteq DOMAIN payload

\* kosong.tooling.ToolResult is {tool_call_id, outcome}
ToolResult_model_validate(payload) ==
    IF has_fields(payload, {"tool_call_id", "return_value"})
    THEN Ok(WireToolResult(payload.tool_call_id, payload.return_value))
    ELSE Raise("ValidationError")

\* cls.model_validate(payload), by class; registry is _NAME_TO_WIRE_MESSAGE_TYPE
\* as the nested decode of SubagentEvent._validate_event reads it
model_validate(registry, cls, payload) ==
    CASE cls = "TurnBegin" ->
           IF ~has_fields(payload, {"user_input"}) THEN Raise("ValidationError")
           ELSE IF "str" \in DOMAIN payload.user_input
           THEN Ok(TurnBegin(payload.user_input))
           ELSE LET items == payload.user_input.list
                    parts == [i \in DOMAIN items |->
                                 model_validate(registry, "ContentPart", items[i])]
                IN  IF \E i \in DOMAIN parts : parts[i].raised # "none"
                    THEN Raise("ValidationError")
                    ELSE Ok(TurnBegin(PyList([i \in DOMAIN parts |-> parts[i].msg])))
      [] cls = "StepBegin" ->
           IF has_fields(payload, {"n"}) THEN Ok(StepBegin(payload.n))
           ELSE Raise("ValidationError")
      [] cls = "StepInterrupted" -> Ok(StepInterrupted)
      [] cls = "CompactionBegin" -> Ok(CompactionBegin)
      [] cls = "CompactionEnd" -> Ok(CompactionEnd)
      [] cls = "StatusUpdate" ->
           Ok([kind |-> "StatusUpdate",
               context_usage |-> IF "context_usage" \in DOMAIN payload
                                 THEN payload.context_usage ELSE PyNone,
               token_usage |-> IF "token_usage" \in DOMAIN payload
                               THEN payload.token_usage ELSE PyNone,
               message_id |-> IF "message_id" \in DOMAIN payload
                              THEN payload.message_id ELSE NoneStr])
      [] cls = "ContentPart" ->
           \* validate_content_part: dispatch on the value of `type`
           IF ~has_fields(payload, {"type"}) THEN Raise("ValidationError")
           ELSE IF payload.type \notin DOMAIN content_part_registry THEN Raise("KeyError")
           ELSE model_validate(registry, content_part_registry[payload.type], payload)
      [] cls = "TextPart" ->
           IF has_fields(payload, {"text"}) THEN Ok(TextPart(payload.text))
           ELSE Raise("ValidationError")
      [] cls = "ThinkPart" ->
           IF has_fields(payload, {"think"})
           THEN Ok(ThinkPart(payload.think,
                             IF "encrypted" \in DOMAIN payload
                             THEN payload.encrypted ELSE NoneStr))
           ELSE Raise("ValidationError")
      [] cls = "ImageURLPart" ->
           IF has_fields(payload, {"image_url"}) /\ has_fields(payload.image_url, {"url"})
           THEN Ok(ImageURLPart(payload.image_url.url))
           ELSE Raise("ValidationError")
      [] cls = "ToolCall" ->
           IF /\ has_fields(payload, {"id", "function"})
              /\ has_fields(payload.function, {"name", "arguments"})
              /\ ("type" \in DOMAIN payload => payload.type = "function")
           THEN Ok(ToolCall(payload.id, payload.function.name, payload.function.arguments))
           ELSE Raise("ValidationError")
      [] cls = "ToolCallPart" ->
           Ok(ToolCallPart(IF "arguments_part" \in DOMAIN payload
                           THEN payload.arguments_part ELSE NoneStr))
      [] cls = "ToolResult" -> ToolResult_model_validate(payload)
      [] cls = "SubagentEvent" ->
           \* _validate_event: value.get("type"), value.get("payload") make an
           \* envelope, which is decoded and must give an Event
           IF ~has_fields(payload, {"task_tool_call_id", "event"})
           THEN Raise("ValidationError")
           ELSE IF ~has_fields(payload.event, {"type", "payload"})
           THEN Raise("ValidationError")
           ELSE LET event == to_wire_message(registry,
                                 [type |-> payload.event.type,
                                  payload |-> payload.event.payload])
                IN  IF event.raised # "none" THEN Raise("ValidationError")
                    ELSE IF ~is_event(event.msg) THEN Raise("ValidationError")
                    ELSE Ok(SubagentEvent(payload.task_tool_call_id, event.msg))
      [] cls = "ApprovalRequest" ->
           \* __init__ gives the new object a new, pending _future
           IF has_fields(payload, {"id", "tool_call_id", "sender", "action", "description"})
           THEN Ok([kind |-> "ApprovalRequest", id |-> payload.id,
                    tool_call_id |-> payload.tool_call_id, sender |-> payload.sender,
                    action |-> payload.action, description |-> payload.description,
                    display |-> IF "display" \in DOMAIN payload
                                THEN payload.display ELSE <<>>,
                    future |-> "pending"])
           ELSE Raise("ValidationError")
      [] cls = "ApprovalRequestResolved" ->
           IF /\ has_fields(payload, {"request_id", "response"})
              /\ payload.response \in Responses
           THEN Ok(ApprovalRequestResolved(payload.request_id, payload.response))
           ELSE Raise("ValidationError")

\* faulty variant: an unknown tag is registered and decoded as a StepInterrupted
to_wire_message_registers(registry, envelope) ==
    IF envelope.type \notin DOMAIN registry
    THEN [raised |-> "none", msg |-> StepInterrupted,
          registry |-> [name \in DOMAIN registry \cup {envelope.type} |->
                           IF name \in DOMAIN registry THEN registry[name]
                           ELSE "StepInterrupted"]]
    ELSE LET r == model_validate(registry, registry[envelope.type], envelope.payload)
         IN  [raised |-> r.raised, msg |-> r.msg, registry |-> registry]

\* WireMessageEnvelope.to_wire_message: what it raises or returns, and the
\* registry it leaves
to_wire_message(registry, envelope) ==
    IF envelope.type \notin DOMAIN registry
    THEN [raised |-> "ValueError", msg |-> NoMsg, registry |-> registry]
    ELSE LET r == model_validate(registry, registry[envelope.type], envelope.payload)
         IN  [raised |-> r.raised, msg |-> r.msg, registry |-> registry]

\* the events a subagent's SubagentEvent wraps
InnerEvents ==
    {TextPart(<<"a">>), StatusUpdate(PyFloat(42), NoneStr), ToolCall("c1", "t", <<"{">>)}

RECURSIVE Nested(_)
\* SubagentEvents nested d deep
Nested(d) ==
    IF d = 0 THEN InnerEvents ELSE {SubagentEvent("c1", e) : e \in Nested(d - 1)}

\* the messages the producer sends, one or more of every variant
WireMessages ==
    {TurnBegin(PyStr(<<"h">>)), TurnBegin(PyList(<<TextPart(<<"a">>)>>)),
     StepBegin(1), StepInterrupted, CompactionBegin, CompactionEnd,
     StatusUpdate(PyFloat(42), NoneStr), StatusUpdate(PyNone, <<"m">>),
     TextPart(<<"a">>), ThinkPart(<<"a">>, NoneStr), ThinkPart(<<"a">>, <<"s">>),
     ImageURLPart(<<"i">>),
     ToolCall("c1", "t", <<"{">>), ToolCall("c1", "t", NoneStr),
     ToolCallPart(<<"}">>), ToolCallPart(NoneStr),
     WireToolResult("c1", "ToolOk"), WireToolResult("c1", "ToolRuntimeError"),
     ApprovalRequestResolved("r1", "approve"),
     ApprovalRequest("r1", "c1", "pending"), ApprovalRequest("r1", "c1", "approve")}
    \cup UNION {Nested(d) : d \in 1..MaxDepth}

\* records of a wire file this codec did not write
ForeignEnvelopes ==
    {[type |-> "TextPart", payload |-> [type |-> "text", text |-> <<"a">>]],
     [type |-> "Heartbeat", payload |-> [x \in {} |-> TRUE]],
     [type |-> "StepBegin", payload |-> [x \in {} |-> TRUE]],
     [type |-> "ContentPart", payload |-> [type |-> "video", text |-> <<"a">>]]}

(***************************************************************************)
(* BroadcastQueue (kimi_cli/utils/broadcast.py), the Queue it holds and    *)
(* the Wire built on it                                                    *)
(***************************************************************************)
\* the subscriptions: the consumer side of the Wire holds one
QueueIds == {"ui"}

\* Queue(): empty, not shut down
NewQueue == [items |-> <<>>, shutdown |-> "no"]

\* queue.put_nowait(item): QueueShutDown once the queue is shut down
Queue_put_nowait(q, item) ==
    IF q.shutdown # "no" THEN [raised |-> TRUE, q |-> q]
    ELSE [raised |-> FALSE, q |-> [q EXCEPT !.items = Append(@, item)]]

\* queue.shutdown(immediate): a graceful shutdown keeps the buffered items for
\* the getters, an immediate one discards them
Queue_shutdown(q, immediate) ==
    IF immediate THEN [items |-> <<>>, shutdown |-> "immediate"]
    ELSE [q EXCEPT !.shutdown = "graceful"]

\* BroadcastQueue.subscribe: a new queue, added to _queues
BroadcastQueue_subscribe(bq, id) ==
    [queues |-> [bq.queues EXCEPT ![id] = NewQueue], subscribed |-> bq.subscribed \cup {id}]

\* faulty variant: the new item overtakes the items a queue still buffers
BroadcastQueue_publish_nowait_overtakes(bq, item) ==
    [bq EXCEPT !.queues =
        [id \in DOMAIN bq.queues |->
            IF id \in bq.subscribed
            THEN [bq.queues[id] EXCEPT !.items = <<item>> \o @]
            ELSE bq.queues[id]]]

\* BroadcastQueue.publish_nowait: put_nowait on every queue of _queues, none of
\* which is shut down (the queue of the Wire is shut down only by
\* BroadcastQueue.shutdown, which clears _queues)
BroadcastQueue_publish_nowait(bq, item) ==
    [bq EXCEPT !.queues =
        [id \in DOMAIN bq.queues |->
            IF id \in bq.subscribed
            THEN Queue_put_nowait(bq.queues[id], item).q
            ELSE bq.queues[id]]]

\* faulty variant: every shutdown is an immediate one
BroadcastQueue_shutdown_immediately(bq, immediate) ==
    [queues |-> [id \in DOMAIN bq.queues |->
                    IF id \in bq.subscribed
                    THEN Queue_shutdown(bq.queues[id], TRUE)
                    ELSE bq.queues[id]],
     subscribed |-> {}]

\* BroadcastQueue.shutdown: every queue of _queues is shut down, then _queues
\* is cleared
BroadcastQueue_shutdown(bq, immediate) ==
    [queues |-> [id \in DOMAIN bq.queues |->
                    IF id \in bq.subscribed
                    THEN Queue_shutdown(bq.queues[id], immediate)
                    ELSE bq.queues[id]],
     subscribed |-> {}]

\* BroadcastQueue.unsubscribe: the queue is discarded from _queues
BroadcastQueue_unsubscribe(bq, id) == [bq EXCEPT !.subscribed = @ \ {id}]

\* the orders in which `for queue in self._queues` can visit the set
Orders(S) ==
    {o \in [1 .. Cardinality(S) -> S] : \A i, j \in DOMAIN o : i # j => o[i] # o[j]}

RECURSIVE BroadcastQueue_publish_nowait_in(_, _, _)
\* BroadcastQueue.publish_nowait when the loop visits _queues in the given
\* order: the QueueShutDown of a put_nowait ends the loop
BroadcastQueue_publish_nowait_in(bq, order, item) ==
    IF order = <<>> THEN [raised |-> FALSE, bq |-> bq]
    ELSE LET r == Queue_put_nowait(bq.queues[Head(order)], item)
         IN  IF r.raised THEN [raised |-> TRUE, bq |-> bq]
             ELSE BroadcastQueue_publish_nowait_in(
                      [bq EXCEPT !.queues[Head(order)] = r.q], Tail(order), item)

\* BroadcastQueue.publish: gather runs queue.put(item) for every queue of
\* _queues, each in a task of its own; the first QueueShutDown is raised to the
\* caller and the other puts still run
BroadcastQueue_publish(bq, item) ==
    [raised |-> \E id \in bq.subscribed : Queue_put_nowait(bq.queues[id], item).raised,
     bq |-> [bq EXCEPT !.queues =
                [id \in DOMAIN bq.queues |->
                    IF id \in bq.subscribed
                    THEN Queue_put_nowait(bq.queues[id], item).q
                    ELSE bq.queues[id]]]]

\* the queues subscribers of a BroadcastQueue hold
SubscriberIds == {"q1", "q2"}

\* every order in which some set of queues can be visited
AllOrders == UNION {Orders(S) : S \in SUBSET SubscriberIds}

RECURSIVE publish_all(_, _)
\* publish_nowait of each message of out, in order
publish_all(bq, out) ==
    IF out = <<>> THEN bq
    ELSE publish_all(BroadcastQueue_publish_nowait(bq, Head(out)), Tail(out))

\* isinstance(msg, MergeableMixin)
IsMergeable(msg) == msg.kind \in {"text", "think", "image_url", "tool_call", "tool_call_part"}

\* the merge buffer of the Wire handed on, if there is one
Wire_flush(buffer) == IF buffer = NoPart THEN <<>> ELSE <<buffer>>

\* faulty variant: a message that does not merge replaces the buffer, which is
\* not handed on
Wire_send_drops_buffer(w, msg) ==
    IF w.shut # "no" THEN [raised |-> TRUE, buffer |-> w.buffer, out |-> <<>>]
    ELSE IF ~w.merge THEN [raised |-> FALSE, buffer |-> w.buffer, out |-> <<msg>>]
    ELSE IF ~IsMergeable(msg)
    THEN [raised |-> FALSE, buffer |-> NoPart, out |-> Wire_flush(w.buffer) \o <<msg>>]
    ELSE IF w.buffer = NoPart THEN [raised |-> FALSE, buffer |-> msg, out |-> <<>>]
    ELSE LET r == merge_in_place(w.buffer, msg)
         IN  IF r.ok THEN [raised |-> FALSE, buffer |-> r.self, out |-> <<>>]
             ELSE [raised |-> FALSE, buffer |-> msg, out |-> <<>>]

\* Wire send: after shutdown it fails and delivers nothing; with merge mode
\* disabled the message is published as it is; with merge mode enabled it is
\* merged into the buffer when merge_in_place combines them, and otherwise the
\* buffer is handed on first.  out: what is published, in order
Wire_send(w, msg) ==
    IF w.shut # "no" THEN [raised |-> TRUE, buffer |-> w.buffer, out |-> <<>>]
    ELSE IF ~w.merge THEN [raised |-> FALSE, buffer |-> w.buffer, out |-> <<msg>>]
    ELSE IF ~IsMergeable(msg)
    THEN [raised |-> FALSE, buffer |-> NoPart, out |-> Wire_flush(w.buffer) \o <<msg>>]
    ELSE IF w.buffer = NoPart THEN [raised |-> FALSE, buffer |-> msg, out |-> <<>>]
    ELSE LET r == merge_in_place(w.buffer, msg)
         IN  IF r.ok THEN [raised |-> FALSE, buffer |-> r.self, out |-> <<>>]
             ELSE [raised |-> FALSE, buffer |-> msg, out |-> <<w.buffer>>]

\* faulty variant: the shutdown leaves the futures of unresolved requests alone
Wire_shutdown_fails_no_wait(futures, emitted) == futures

\* Wire shutdown, the requests: the wait on every emitted request that is not
\* resolved fails
Wire_shutdown_fails_waits(futures, emitted) ==
    [r \in DOMAIN futures |->
        IF r \in emitted /\ futures[r].state = "pending"
        THEN [futures[r] EXCEPT !.state = "cancelled"]
        ELSE futures[r]]

\* the requests of the messages the Wire accepted
Emitted(sends) ==
    {sends[i].msg.id : i \in {j \in DOMAIN sends :
                                 ~sends[j].raised /\ sends[j].msg.kind = "ApprovalRequest"}}

\* the messages the producer sends
Sendables ==
    {TextPart(<<"a">>), ToolCall("c1", "t", <<"{">>), ToolCallPart(<<"}">>),
     StepBegin(1), ApprovalRequest("r1", "c1", "pending")}

(***************************************************************************)
(* The context variable current_tool_call (kimi_cli/soul/toolset.py)       *)
(***************************************************************************)
\* the default of current_tool_call, and the ToolCall object that was the n-th
\* handed to handle(); object 0 is the call an enclosing tool execution is
\* running for
NoToolCall == [kind |-> "none"]
ToolCallObject(tool_call, n) == [kind |-> "ToolCall", call |-> tool_call, n |-> n]
OuterToolCall == ToolCallObject(ToolCall("c1", "t", <<"{", "}">>), 0)

\* a contextvars.Context, and the absence of one
Context(value) == [current_tool_call |-> value]
NoContext == [current_tool_call |-> "no context"]

\* ContextVar.set in context ctx: the context after it and the token
ContextVar_set(ctx, value) ==
    [ctx |-> [ctx EXCEPT !.current_tool_call = value],
     token |-> [old_value |-> ctx.current_tool_call]]

\* ContextVar.reset(token) in context ctx
ContextVar_reset(ctx, token) == [ctx EXCEPT !.current_tool_call = token.old_value]

\* asyncio.create_task runs the coroutine in a copy of the current context
copy_context(ctx) == ctx

\* get_current_tool_call_or_none() in context ctx
get_current_tool_call_or_none(ctx) == ctx.current_tool_call

\* faulty variant: the binding is reset only where a task was created
handle_in_context_resets_after_task(ctx, tool_call, n) ==
    LET set == ContextVar_set(ctx, ToolCallObject(tool_call, n))
        r == handle(tool_call)
    IN  [immediate |-> r.immediate,
         task_context |-> IF r.immediate THEN NoContext ELSE copy_context(set.ctx),
         ctx |-> IF r.immediate THEN set.ctx ELSE ContextVar_reset(set.ctx, set.token)]

\* KimiToolset.handle called in context ctx with the n-th ToolCall object:
\* the context of the task it creates, if it creates one, and the caller's
\* context after the finally clause
handle_in_context(ctx, tool_call, n) ==
    LET set == ContextVar_set(ctx, ToolCallObject(tool_call, n))
        r == handle(tool_call)
    IN  [immediate |-> r.immediate,
         task_context |-> IF r.immediate THEN NoContext ELSE copy_context(set.ctx),
         ctx |-> ContextVar_reset(set.ctx, set.token)]

\* the tool calls a step dispatches: registered or not, parseable or not
ContextCalls ==
    {ToolCall("c1", "t", <<"{", "}">>), ToolCall("c2", "t", <<"{", "}">>),
     ToolCall("c1", "u", <<"{", "}">>), ToolCall("c2", "t", <<"{">>)}

(***************************************************************************)
(* MCP servers of a KimiToolset: load_mcp_tools and cleanup                *)
(***************************************************************************)
\* MCPServerInfo(status="pending", client=client, tools=[]); closed: whether
\* cleanup() has closed the client
MCPServerInfo == [status |-> "pending", closed |-> FALSE]

\* Task.cancel() on the loading task: nothing on a done task
Task_cancel(task) == IF task = "running" THEN "cancelling" ELSE task

\* `with contextlib.suppress(Exception): await task` on a task that has ended:
\* the MCPRuntimeError of a failed task is suppressed; CancelledError is no
\* Exception and is raised to the caller
await_suppressing_Exception(task) ==
    IF task = "cancelled" THEN "CancelledError" ELSE "none"

\* _connect() has gathered its tasks: it raises MCPRuntimeError when a server
\* failed to connect
connect_end(servers) ==
    IF \E i \in DOMAIN servers : servers[i].status = "failed" THEN "failed" ELSE "done"

(***************************************************************************)
(* DenwaRenji (kimi_cli/soul/denwarenji.py)                                *)
(***************************************************************************)
\* the value None of `DMail | None`
NoDMail == [kind |-> "none"]

\* DMail(message=..., checkpoint_id=...)
DMail(text, checkpoint_id) ==
    [kind |-> "DMail", message |-> text, checkpoint_id |-> checkpoint_id]

\* DenwaRenji(): no pending D-Mail, no checkpoints
DenwaRenji == [pending_dmail |-> NoDMail, n_checkpoints |-> 0]

\* faulty variant: a D-Mail sent while another is pending replaces it
send_dmail_replaces(self, dmail) ==
    IF dmail.checkpoint_id < 0
    THEN [raised |-> "DenwaRenjiError", self |-> self]
    ELSE IF dmail.checkpoint_id >= self.n_checkpoints
    THEN [raised |-> "DenwaRenjiError", self |-> self]
    ELSE [raised |-> "none", self |-> [self EXCEPT !.pending_dmail = dmail]]

\* send_dmail: what it raises and the DenwaRenji after it
send_dmail(self, dmail) ==
    IF self.pending_dmail # NoDMail
    THEN [raised |-> "DenwaRenjiError", self |-> self]
    ELSE IF dmail.checkpoint_id < 0
    THEN [raised |-> "DenwaRenjiError", self |-> self]
    ELSE IF dmail.checkpoint_id >= self.n_checkpoints
    THEN [raised |-> "DenwaRenjiError", self |-> self]
    ELSE [raised |-> "none", self |-> [self EXCEPT !.pending_dmail = dmail]]

\* set_n_checkpoints
set_n_checkpoints(self, n_checkpoints) == [self EXCEPT !.n_checkpoints = n_checkpoints]

\* fetch_pending_dmail: what it returns and the DenwaRenji after it
fetch_pending_dmail(self) ==
    [ret |-> self.pending_dmail, self |-> [self EXCEPT !.pending_dmail = NoDMail]]

\* the D-Mails a caller sends: DMail validates checkpoint_id >= 0 when it is
\* constructed, not when the attribute is assigned, so a negative id can reach
\* send_dmail; the counts a caller sets
CheckpointIds == -1 .. MaxCheckpoints
CheckpointCounts == 0 .. MaxCheckpoints
DMails == {DMail("m", i) : i \in CheckpointIds}

(***************************************************************************)
(* The initial state                                                       *)
(***************************************************************************)
Init ==
    /\ pc = "streaming"
    /\ error = "none"
    /\ caught = "none"
    /\ stream = <<>>
    /\ observed = <<>>
    /\ message = EmptyMessage
    /\ pending_part = NoPart
    /\ crossings = 0
    /\ gpc = "pull"
    /\ tool_calls = <<>>
    /\ tool_result_futures = [i \in ToolCallIds |-> 0]
    /\ handles = <<>>
    /\ trPc = "idle"
    /\ trIdx = 0
    /\ results = <<>>
    /\ trOutcome = "none"
    /\ nCollects = 0
    /\ first_return = [done |-> FALSE, list |-> <<>>]
    /\ approval_future = [r \in RequestIds |-> Future]
    /\ resolve_calls = [r \in RequestIds |-> <<>>]
    /\ wait_returned = [r \in RequestIds |-> "none"]
    /\ mcp_pc = [c \in ToolCallIds |-> "idle"]
    /\ mcp_outcome = [c \in ToolCallIds |-> NoOutcome]
    /\ mcp_handle = [c \in ToolCallIds |-> Handle(c, TRUE, "pending", "none")]
    /\ mcp_answer = [c \in ToolCallIds |-> "none"]
    /\ mcp_called = [c \in ToolCallIds |-> FALSE]
    /\ codec_registry = NAME_TO_WIRE_MESSAGE_TYPE
    /\ codec_log = <<>>
    /\ codec_sent = <<>>
    /\ codec_replayed = <<>>
    /\ run_pc = "init"
    /\ ui_pc = "idle"
    /\ wire_merge = FALSE
    /\ wire_shut = "no"
    /\ merge_buffer = NoPart
    /\ bq_queues = {}
    /\ wire_queue = [id \in QueueIds |-> NewQueue]
    /\ wire_sends = <<>>
    /\ wire_published = <<>>
    /\ wire_received = <<>>
    /\ wire_snapshot = [received |-> <<>>, published |-> <<>>, sends |-> 0]
    /\ denwa_renji = DenwaRenji
    /\ dmail_calls = <<>>
    /\ bc_subscribed = {}
    /\ bc_queue = [id \in SubscriberIds |-> NewQueue]
    /\ bc_published = <<>>
    /\ bc_put = [id \in SubscriberIds |-> <<>>]
    /\ bc_window = [id \in SubscriberIds |-> [from |-> -1, to |-> -1]]
    /\ bc_got = [id \in SubscriberIds |-> <<>>]
    /\ ctx_entered = FALSE
    /\ ctx_dispatcher = Context(NoToolCall)
    /\ ctx_dispatched = <<>>
    /\ mcp_servers = <<>>
    /\ mcp_loading_task = "none"
    /\ mcp_load = "init"
    /\ cleanup_pc = "idle"
    /\ rs_pc = "init"
    /\ rs_error = "none"
    /\ rs_inflight = "none"
    /\ soul_task = "unstarted"
    /\ ui_task = "unstarted"
    /\ cancel_event = FALSE
    /\ cancel_event_task = "unstarted"
    /\ rs_wire = "none"
    /\ current_wire = "previous"
    /\ rs_history = [fired_in_progress |-> FALSE, soul_first |-> FALSE, cancelled_soul |-> FALSE, soul_done_at_shutdown |-> FALSE]

(***************************************************************************)
(* Bare generate(): SpecGen                                                *)
(***************************************************************************)
GenPart ==
    /\ pc = "streaming"
    /\ Len(stream) < MaxGenParts
    /\ \E part \in GenParts : generate_part(part, FALSE)
    /\ UNCHANGED <<pc, error, caught, collectVars>>
    /\ UNCHANGED nonKosongVars

GenEnd ==
    /\ pc = "streaming"
    /\ generate_end(FALSE)
    /\ IF EmptyResponse(message')
       THEN pc' = "raised" /\ error' = "APIEmptyResponseError"
       ELSE pc' = "returned" /\ error' = "none"
    /\ UNCHANGED <<caught, collectVars>>
    /\ UNCHANGED nonKosongVars

GenFail ==
    /\ pc = "streaming"
    /\ pc' = "raised"
    /\ error' = "ChatProviderError"
    /\ UNCHANGED <<caught, genVars, stepVars, collectVars>>
    /\ UNCHANGED nonKosongVars

NextGen == GenPart \/ GenEnd \/ GenFail

SpecGen == Init /\ [][NextGen]_vars

(***************************************************************************)
(* step(): Spec                                                            *)
(***************************************************************************)
\* the stream yields a part; generate() handles it
StepPart ==
    /\ pc = "streaming"
    /\ Len(stream) < MaxParts
    /\ \E part \in StepParts : generate_part(part, TRUE)
    /\ UNCHANGED <<pc, error, caught, collectVars>>
    /\ UNCHANGED nonKosongVars

\* the stream is exhausted. APIEmptyResponseError is a ChatProviderError: step()
\* catches it, and then tool_result_futures is empty (no tool call was finalized)
StepEnd ==
    /\ pc = "streaming"
    /\ generate_end(TRUE)
    /\ IF EmptyResponse(message')
       THEN pc' = "draining" /\ error' = "APIEmptyResponseError"
                              /\ caught' = "APIEmptyResponseError"
       ELSE pc' = "returned" /\ error' = "none" /\ caught' = "none"
    /\ UNCHANGED collectVars
    /\ UNCHANGED nonKosongVars

\* the except clause of step(), entered with exception e
step_except(e) ==
    /\ handles' = cancel_all(handles, tool_result_futures, TRUE)
    /\ pc' = "draining"
    /\ error' = e
    /\ caught' = e
    /\ UNCHANGED <<genVars, tool_calls, tool_result_futures, collectVars>>
    /\ UNCHANGED nonKosongVars

\* the stream raises a ChatProviderError
StepFail ==
    /\ pc = "streaming"
    /\ step_except("ChatProviderError")

\* step() is cancelled while generate() awaits the stream or a callback
StepCancel ==
    /\ pc = "streaming"
    /\ step_except("CancelledError")

\* on_message_part raises an Exception for the part just received: neither
\* except clause of step() matches it
ObserverFault ==
    /\ pc = "streaming"
    /\ Len(stream) < MaxParts
    /\ \E part \in StepParts :
          /\ stream' = Append(stream, part)
          /\ observed' = Append(observed, part)
    /\ pc' = "raised"
    /\ error' = "ObserverFault"
    /\ UNCHANGED <<caught, message, pending_part, crossings, gpc, stepVars, collectVars>>
    /\ UNCHANGED nonKosongVars

\* step() is cancelled while it awaits the gather of its except clause: the
\* gather still waits for its children, then CancelledError leaves the clause
DrainCancel ==
    /\ pc = "draining"
    /\ Owned(tool_result_futures) # {}
    /\ error # "CancelledError"
    /\ error' = "CancelledError"
    /\ UNCHANGED <<pc, caught, genVars, stepVars, collectVars>>
    /\ UNCHANGED nonKosongVars

\* the gather has completed: `raise`
DrainDone ==
    /\ pc = "draining"
    /\ gathered(handles, tool_result_futures)
    /\ pc' = "raised"
    /\ UNCHANGED <<error, caught, genVars, stepVars, collectVars>>
    /\ UNCHANGED nonKosongVars

(***************************************************************************)
(* The tasks KimiToolset.handle created                                    *)
(***************************************************************************)
\* faulty variant: a tool returns only when every tool dispatched before it is done
ToolReturn_in_dispatch_order(h) ==
    /\ handles[h].task /\ handles[h].state = "pending"
    /\ \A g \in 1..(h - 1) : handles[g].state \in Terminal
    /\ handles' = [handles EXCEPT ![h] = future_done_callback(call_end(@, FALSE, "ToolOk"))]
    /\ UNCHANGED <<pc, error, caught, genVars, tool_calls, tool_result_futures, collectVars>>
    /\ UNCHANGED nonKosongVars

\* tool.call returns
ToolReturn(h) ==
    /\ handles[h].task /\ handles[h].state = "pending"
    /\ handles' = [handles EXCEPT ![h] = future_done_callback(call_end(@, FALSE, "ToolOk"))]
    /\ UNCHANGED <<pc, error, caught, genVars, tool_calls, tool_result_futures, collectVars>>
    /\ UNCHANGED nonKosongVars

\* tool.call raises an Exception
ToolRaise(h) ==
    /\ handles[h].task /\ handles[h].state = "pending"
    /\ handles' = [handles EXCEPT ![h] = future_done_callback(call_end(@, TRUE, "none"))]
    /\ UNCHANGED <<pc, error, caught, genVars, tool_calls, tool_result_futures, collectVars>>
    /\ UNCHANGED nonKosongVars

\* a requested cancellation is delivered to the task
ToolCancelled(h) ==
    /\ handles[h].state = "cancelling"
    /\ handles' = [handles EXCEPT ![h] = future_done_callback([@ EXCEPT !.state = "cancelled"])]
    /\ UNCHANGED <<pc, error, caught, genVars, tool_calls, tool_result_futures, collectVars>>
    /\ UNCHANGED nonKosongVars

(***************************************************************************)
(* StepResult.tool_results                                                 *)
(***************************************************************************)
\* the ToolResult a resolved handle holds; handle is a ghost field naming it
ToolResult(h) ==
    [tool_call_id |-> handles[h].id, return_value |-> handles[h].return_value,
     handle |-> h]

\* self._tool_result_futures[tool_call.id] of the loop's current tool call
awaited == tool_result_futures[tool_calls[trIdx].id]

\* the finally clause: cancel every future, then gather
tool_results_finally(outcome) ==
    /\ handles' = cancel_all(handles, tool_result_futures, FALSE)
    /\ trPc' = "cleanup"
    /\ trOutcome' = outcome

\* tool_results() is called on the StepResult step() returned
tool_results_call ==
    /\ pc = "returned"
    /\ trPc \in {"idle", "done"}
    /\ nCollects < MaxCollects
    /\ nCollects' = nCollects + 1
    /\ results' = <<>>
    /\ IF Owned(tool_result_futures) = {}
       THEN /\ trPc' = "done" /\ trOutcome' = "returned" /\ trIdx' = 0
            /\ first_return' = [done |-> TRUE, list |-> <<>>]
       ELSE /\ trPc' = "awaiting" /\ trOutcome' = "none" /\ trIdx' = 1
            /\ UNCHANGED first_return
    /\ UNCHANGED <<pc, error, caught, genVars, stepVars>>
    /\ UNCHANGED nonKosongVars

\* `result = await future` completes for the loop's current tool call
tool_results_await ==
    /\ trPc = "awaiting"
    /\ handles[awaited].state \in Terminal
    /\ CASE handles[awaited].state = "resolved" ->
              /\ results' = Append(results, ToolResult(awaited))
              /\ IF trIdx < Len(tool_calls)
                 THEN /\ trIdx' = trIdx + 1
                      /\ UNCHANGED <<handles, trPc, trOutcome>>
                 ELSE /\ tool_results_finally("returned")
                      /\ UNCHANGED trIdx
         [] handles[awaited].state = "cancelled" ->
              /\ tool_results_finally("CancelledError")
              /\ UNCHANGED <<results, trIdx>>
         [] handles[awaited].state = "failed" ->
              /\ tool_results_finally("ToolFault")
              /\ UNCHANGED <<results, trIdx>>
    /\ UNCHANGED <<pc, error, caught, genVars, tool_calls, tool_result_futures, nCollects,
                   first_return>>
    /\ UNCHANGED nonKosongVars

\* tool_results() is cancelled: while it awaits a handle, Task.cancel() cancels
\* that handle; while it awaits the gather, the gather still waits for its children
tool_results_cancel ==
    /\ \/ /\ trPc = "awaiting"
          /\ handles[awaited].state = "pending"
          /\ handles' = [handles EXCEPT ![awaited] = cancel(@)]
          /\ UNCHANGED trOutcome
       \/ /\ trPc = "cleanup"
          /\ trOutcome # "CancelledError"
          /\ trOutcome' = "CancelledError"
          /\ UNCHANGED handles
    /\ UNCHANGED <<pc, error, caught, genVars, tool_calls, tool_result_futures,
                   trPc, trIdx, results, nCollects, first_return>>
    /\ UNCHANGED nonKosongVars

\* the gather of the finally clause has completed: tool_results() ends
tool_results_end ==
    /\ trPc = "cleanup"
    /\ gathered(handles, tool_result_futures)
    /\ trPc' = "done"
    /\ results' = IF trOutcome = "returned" THEN results ELSE <<>>
    /\ first_return' = IF trOutcome = "returned" /\ ~first_return.done
                       THEN [done |-> TRUE, list |-> results]
                       ELSE first_return
    /\ UNCHANGED <<pc, error, caught, genVars, stepVars, trIdx, trOutcome, nCollects>>
    /\ UNCHANGED nonKosongVars

Next ==
    \/ StepPart
    \/ StepEnd
    \/ StepFail
    \/ StepCancel
    \/ ObserverFault
    \/ DrainCancel
    \/ DrainDone
    \/ \E h \in DOMAIN handles : ToolReturn(h)
    \/ \E h \in DOMAIN handles : ToolRaise(h)
    \/ \E h \in DOMAIN handles : ToolCancelled(h)
    \/ tool_results_call
    \/ tool_results_await
    \/ tool_results_cancel
    \/ tool_results_end

Spec == Init /\ [][Next]_vars

(***************************************************************************)
(* The merge pass of step(), one await at a time: SpecLoop                 *)
(***************************************************************************)
\* the part `async for` bound last
part_in_hand == stream[Len(stream)]

\* faulty variant: on_message_part is awaited after the part was merged
loop_next_observes_last(at, finalizes_tool_call) ==
    CASE at = "pull" -> "merge"
      [] at = "merge" -> IF finalizes_tool_call THEN "callback" ELSE "observe"
      [] at = "callback" -> "observe"
      [] at = "observe" -> "pull"

\* the order of the loop body: the position that follows position `at`
loop_next(at, finalizes_tool_call) ==
    CASE at = "pull" -> "observe"
      [] at = "observe" -> "merge"
      [] at = "merge" -> IF finalizes_tool_call THEN "callback" ELSE "pull"
      [] at = "callback" -> "pull"

\* `async for part in stream` binds the next part
LoopPull ==
    /\ pc = "streaming" /\ gpc = "pull"
    /\ Len(stream) < MaxParts
    /\ \E part \in StepParts : stream' = Append(stream, part)
    /\ gpc' = loop_next("pull", FALSE)
    /\ UNCHANGED <<pc, error, caught, observed, message, pending_part, crossings,
                   stepVars, collectVars, nonKosongVars>>

\* `await callback(on_message_part, part.model_copy(deep=True))` completes
LoopObserve ==
    /\ pc = "streaming" /\ gpc = "observe"
    /\ observed' = Append(observed, part_in_hand)
    /\ gpc' = loop_next("observe", FALSE)
    /\ UNCHANGED <<pc, error, caught, stream, message, pending_part, crossings,
                   stepVars, collectVars, nonKosongVars>>

\* the part is merged into the pending part, or the pending part is appended to
\* the message
LoopMerge ==
    /\ pc = "streaming" /\ gpc = "merge"
    /\ IF pending_part = NoPart
       THEN /\ pending_part' = part_in_hand
            /\ gpc' = loop_next("merge", FALSE)
            /\ UNCHANGED <<message, crossings, stepVars>>
       ELSE LET r == merge_in_place(pending_part, part_in_hand) IN
            IF r.ok
            THEN /\ pending_part' = r.self
                 /\ gpc' = loop_next("merge", FALSE)
                 /\ UNCHANGED <<message, crossings, stepVars>>
            ELSE /\ finalize(pending_part, FALSE)
                 /\ crossings' = crossings + 1
                 /\ gpc' = loop_next("merge", IsToolCall(pending_part))
                 /\ pending_part' = IF IsToolCall(pending_part)
                                    THEN pending_part ELSE part_in_hand
    /\ UNCHANGED <<pc, error, caught, stream, observed, collectVars, nonKosongVars>>

\* `await callback(on_tool_call, pending_part)` completes, then
\* `pending_part = part`
LoopCallback ==
    /\ pc = "streaming" /\ gpc = "callback"
    /\ on_tool_call(pending_part)
    /\ pending_part' = part_in_hand
    /\ gpc' = loop_next("callback", FALSE)
    /\ UNCHANGED <<pc, error, caught, stream, observed, message, crossings,
                   collectVars, nonKosongVars>>

\* the stream is exhausted
LoopEnd ==
    /\ gpc = "pull"
    /\ StepEnd

NextLoop == LoopPull \/ LoopObserve \/ LoopMerge \/ LoopCallback \/ LoopEnd

SpecLoop == Init /\ [][NextLoop]_vars

(***************************************************************************)
(* MCP tool calls run by the tasks of KimiToolset.handle: SpecMCP          *)
(***************************************************************************)
\* the task of tool call c starts: MCPTool.__call__ asks for approval
MCPStart(c) ==
    /\ mcp_pc[c] = "idle"
    /\ mcp_pc' = [mcp_pc EXCEPT ![c] = "approval"]
    /\ UNCHANGED <<mcp_outcome, mcp_handle, mcp_answer, mcp_called, nonMcpVars>>

\* the end of the task of tool call c, when MCPTool.__call__ ended as r
MCPEnd(c, r) ==
    /\ mcp_pc' = [mcp_pc EXCEPT ![c] = "done"]
    /\ mcp_handle' = [mcp_handle EXCEPT ![c] = call_end(@, r.raised, r.ret)]

\* faulty variant: the remote call is made whatever the answer is
MCPApproval_calls_anyway(c, approved) ==
    /\ mcp_pc[c] = "approval"
    /\ mcp_answer' = [mcp_answer EXCEPT ![c] = IF approved THEN "approve" ELSE "reject"]
    /\ mcp_pc' = [mcp_pc EXCEPT ![c] = "calling"]
    /\ mcp_called' = [mcp_called EXCEPT ![c] = TRUE]
    /\ UNCHANGED <<mcp_handle, mcp_outcome, nonMcpVars>>

\* `await self._runtime.approval.request(...)` returns: a rejection ends the
\* call with ToolRejectedError; an approval enters `async with self._client`
\* and calls client.call_tool
MCPApproval(c, approved) ==
    /\ mcp_pc[c] = "approval"
    /\ mcp_answer' = [mcp_answer EXCEPT ![c] = IF approved THEN "approve" ELSE "reject"]
    /\ IF approved
       THEN /\ mcp_pc' = [mcp_pc EXCEPT ![c] = "calling"]
            /\ mcp_called' = [mcp_called EXCEPT ![c] = TRUE]
            /\ UNCHANGED mcp_handle
       ELSE /\ MCPEnd(c, MCPTool_call(FALSE, NoOutcome))
            /\ UNCHANGED mcp_called
    /\ UNCHANGED <<mcp_outcome, nonMcpVars>>

\* `await client.call_tool(...)` ends
MCPCallTool(c, outcome) ==
    /\ mcp_pc[c] = "calling"
    /\ mcp_outcome' = [mcp_outcome EXCEPT ![c] = outcome]
    /\ MCPEnd(c, MCPTool_call(TRUE, outcome))
    /\ UNCHANGED <<mcp_answer, mcp_called, nonMcpVars>>

\* the task is cancelled while MCPTool.__call__ awaits: CancelledError is no
\* Exception, so neither except clause catches it
MCPCancel(c) ==
    /\ mcp_pc[c] \in {"approval", "calling"}
    /\ mcp_pc' = [mcp_pc EXCEPT ![c] = "done"]
    /\ mcp_handle' = [mcp_handle EXCEPT ![c].state = "cancelled"]
    /\ UNCHANGED <<mcp_outcome, mcp_answer, mcp_called, nonMcpVars>>

NextMCP ==
    \/ \E c \in ToolCallIds : MCPStart(c)
    \/ \E c \in ToolCallIds, approved \in BOOLEAN : MCPApproval(c, approved)
    \/ \E c \in ToolCallIds, outcome \in CallToolOutcomes : MCPCallTool(c, outcome)
    \/ \E c \in ToolCallIds : MCPCancel(c)

SpecMCP == Init /\ [][NextMCP]_vars

(***************************************************************************)
(* ApprovalRequest: SpecApproval                                           *)
(***************************************************************************)

\* faulty variant: the result of a done future is overwritten
set_result_overwrites(fut, result) ==
    [raised |-> FALSE, fut |-> [state |-> "resolved", result |-> result]]

\* self._future.set_result(response): InvalidStateError unless the future is
\* pending, and then the future is left as it is
set_result(fut, result) ==
    IF fut.state # "pending"
    THEN [raised |-> TRUE, fut |-> fut]
    ELSE [raised |-> FALSE, fut |-> [state |-> "resolved", result |-> result]]

\* ApprovalRequest.resolved
resolved(r) == approval_future[r].state # "pending"

\* ApprovalRequest.resolve(response)
ApprovalResolve(r, response) ==
    /\ Len(resolve_calls[r]) < MaxResolves
    /\ LET res == set_result(approval_future[r], response) IN
          /\ approval_future' = [approval_future EXCEPT ![r] = res.fut]
          /\ resolve_calls' = [resolve_calls EXCEPT
                                  ![r] = Append(@, [response |-> response,
                                                    raised |-> res.raised])]
    /\ UNCHANGED <<wait_returned, nonApprovalVars>>

\* faulty variant: wait() does not await the future, and a request that is
\* still pending counts as approved
ApprovalWait_unsuspended(r) ==
    /\ wait_returned[r] = "none"
    /\ wait_returned' = [wait_returned EXCEPT
                            ![r] = CASE approval_future[r].state = "cancelled" ->
                                          "CancelledError"
                                     [] approval_future[r].state = "pending" -> "approve"
                                     [] OTHER -> approval_future[r].result]
    /\ UNCHANGED <<approval_future, resolve_calls, nonApprovalVars>>

\* `return await self._future` completes in a task that called wait()
ApprovalWait(r) ==
    /\ approval_future[r].state # "pending"
    /\ wait_returned[r] = "none"
    /\ wait_returned' = [wait_returned EXCEPT
                            ![r] = IF approval_future[r].state = "resolved"
                                   THEN approval_future[r].result
                                   ELSE "CancelledError"]
    /\ UNCHANGED <<approval_future, resolve_calls, nonApprovalVars>>

\* the task awaiting wait() is cancelled: Task.cancel() cancels the future the
\* task awaits
ApprovalWaitCancel(r) ==
    /\ approval_future[r].state = "pending"
    /\ approval_future' = [approval_future EXCEPT ![r].state = "cancelled"]
    /\ UNCHANGED <<resolve_calls, wait_returned, nonApprovalVars>>

NextApproval ==
    \/ \E r \in RequestIds, response \in Responses : ApprovalResolve(r, response)
    \/ \E r \in RequestIds : ApprovalWait(r)
    \/ \E r \in RequestIds : ApprovalWaitCancel(r)

SpecApproval == Init /\ [][NextApproval]_vars

\* the observer resolves a request it has received and not yet answered
ObserverResolves(r) ==
    /\ resolve_calls[r] = <<>>
    /\ \E response \in Responses : ApprovalResolve(r, response)

\* The observer answers every request it receives, and the event loop runs a
\* task whose awaited future is done.
SpecApprovalLive ==
    /\ SpecApproval
    /\ \A r \in RequestIds : WF_vars(ObserverResolves(r)) /\ WF_vars(ApprovalWait(r))

(***************************************************************************)
(* The wire file written and replayed through the envelope: SpecCodec      *)
(***************************************************************************)
\* a message is encoded and its record appended to the file
CodecEncode(msg) ==
    /\ Len(codec_log) < MaxRecords
    /\ codec_log' = Append(codec_log, from_wire_message(msg))
    /\ codec_sent' = Append(codec_sent, msg)
    /\ UNCHANGED <<codec_registry, codec_replayed, nonCodecVars>>

\* the file holds a record this codec did not write
CodecForeign(envelope) ==
    /\ Len(codec_log) < MaxRecords
    /\ codec_log' = Append(codec_log, envelope)
    /\ codec_sent' = Append(codec_sent, NoMsg)
    /\ UNCHANGED <<codec_registry, codec_replayed, nonCodecVars>>

\* replay: the next record of the file is decoded, and what the decode raised
\* or returned is kept
CodecDecode ==
    /\ Len(codec_replayed) < Len(codec_log)
    /\ LET r == to_wire_message(codec_registry, codec_log[Len(codec_replayed) + 1])
       IN  /\ codec_replayed' = Append(codec_replayed, [raised |-> r.raised, msg |-> r.msg])
           /\ codec_registry' = r.registry
    /\ UNCHANGED <<codec_log, codec_sent, nonCodecVars>>

NextCodec ==
    \/ \E msg \in WireMessages : CodecEncode(msg)
    \/ \E envelope \in ForeignEnvelopes : CodecForeign(envelope)
    \/ CodecDecode

SpecCodec == Init /\ [][NextCodec]_vars

(***************************************************************************)
(* run_soul, the Wire and its consumer: SpecWire                           *)
(***************************************************************************)
\* the BroadcastQueue of the Wire and the Wire itself, as records
TheBroadcastQueue == [queues |-> wire_queue, subscribed |-> bq_queues]
TheWire == [shut |-> wire_shut, merge |-> wire_merge, buffer |-> merge_buffer]

\* run_soul up to its await: the Wire is made, the ui task is created with
\* the consumer side it asked for (wire.ui_side(merge)), then the soul task
RunSoulStart(merge) ==
    /\ run_pc = "init"
    /\ run_pc' = "running"
    /\ ui_pc' = "receiving"
    /\ wire_merge' = merge
    /\ LET bq == BroadcastQueue_subscribe(TheBroadcastQueue, "ui")
       IN  wire_queue' = bq.queues /\ bq_queues' = bq.subscribed
    /\ UNCHANGED <<wire_shut, merge_buffer, wire_sends, wire_published, wire_received,
                   wire_snapshot, nonWireVars>>

\* wire_send(msg), by the soul task or a task it started
WireSend(msg) ==
    /\ run_pc # "init"
    /\ Len(wire_sends) < MaxSends
    /\ msg.kind = "ApprovalRequest" => msg.id \notin Emitted(wire_sends)
    /\ LET r == Wire_send(TheWire, msg)
           bq == publish_all(TheBroadcastQueue, r.out)
       IN  /\ wire_sends' = Append(wire_sends, [msg |-> msg, raised |-> r.raised])
           /\ merge_buffer' = r.buffer
           /\ wire_queue' = bq.queues
           /\ wire_published' = wire_published \o r.out
    /\ UNCHANGED <<run_pc, ui_pc, wire_merge, wire_shut, bq_queues, wire_received,
                   wire_snapshot, nonWireVars>>

\* the cancel event is set: soul_task.cancel(), and run_soul awaits the task
RunSoulCancel ==
    /\ run_pc = "running"
    /\ run_pc' = "cancelling"
    /\ UNCHANGED <<ui_pc, wire_merge, wire_shut, merge_buffer, bq_queues, wire_queue,
                   wire_sends, wire_published, wire_received, wire_snapshot, nonWireVars>>

\* the cancellation reaches a task of the soul that awaits wait() on request r
WireWaitCancel(r) ==
    /\ run_pc = "cancelling"
    /\ r \in Emitted(wire_sends)
    /\ wait_returned[r] = "none"
    /\ ApprovalWaitCancel(r)

\* the soul task is done: it returned or raised, or its cancellation ended it
SoulDone ==
    /\ run_pc \in {"running", "cancelling"}
    /\ run_pc' = "finally"
    /\ UNCHANGED <<ui_pc, wire_merge, wire_shut, merge_buffer, bq_queues, wire_queue,
                   wire_sends, wire_published, wire_received, wire_snapshot, nonWireVars>>

\* finally: wire.shutdown(); immediate is the mode of the shutdown (run_soul
\* passes none, and the default of BroadcastQueue.shutdown is graceful).  The
\* merge buffer is handed on first, then the queues are shut down.
WireShutdown(immediate) ==
    /\ run_pc = "finally"
    /\ run_pc' = "shutdown"
    /\ LET out == Wire_flush(merge_buffer)
           bq == BroadcastQueue_shutdown(publish_all(TheBroadcastQueue, out), immediate)
       IN  /\ wire_queue' = bq.queues
           /\ bq_queues' = bq.subscribed
           /\ wire_published' = wire_published \o out
           /\ wire_snapshot' = [received |-> wire_received,
                                published |-> wire_published \o out,
                                sends |-> Len(wire_sends)]
    /\ merge_buffer' = NoPart
    /\ wire_shut' = IF immediate THEN "immediate" ELSE "graceful"
    /\ approval_future' = Wire_shutdown_fails_waits(approval_future, Emitted(wire_sends))
    /\ UNCHANGED <<ui_pc, wire_merge, wire_sends, wire_received, resolve_calls,
                   wait_returned, kosongVars, mcpVars, codecVars, denwaVars, bcastVars, ctxVars, cleanupVars, runVars>>

\* the consumer's `await queue.get()` returns the oldest buffered message
UIReceive ==
    /\ ui_pc = "receiving"
    /\ wire_queue["ui"].items # <<>>
    /\ wire_received' = Append(wire_received, Head(wire_queue["ui"].items))
    /\ wire_queue' = [wire_queue EXCEPT !["ui"].items = Tail(@)]
    /\ UNCHANGED <<run_pc, ui_pc, wire_merge, wire_shut, merge_buffer, bq_queues,
                   wire_sends, wire_published, wire_snapshot, nonWireVars>>

\* the consumer's `await queue.get()` raises QueueShutDown: the queue is shut
\* down and empty; the ui task ends
UIEnd ==
    /\ ui_pc = "receiving"
    /\ wire_queue["ui"].items = <<>>
    /\ wire_queue["ui"].shutdown # "no"
    /\ ui_pc' = "ended"
    /\ UNCHANGED <<run_pc, wire_merge, wire_shut, merge_buffer, bq_queues, wire_queue,
                   wire_sends, wire_published, wire_received, wire_snapshot, nonWireVars>>

\* wait_for(ui_task, timeout=0.5) times out and cancels the ui task
UITimeout ==
    /\ run_pc = "shutdown"
    /\ ui_pc = "receiving"
    /\ ui_pc' = "cancelled"
    /\ UNCHANGED <<run_pc, wire_merge, wire_shut, merge_buffer, bq_queues, wire_queue,
                   wire_sends, wire_published, wire_received, wire_snapshot, nonWireVars>>

\* the observer resolves a request it has received
WireObserverResolves(r) ==
    /\ ui_pc = "receiving"
    /\ \E i \in DOMAIN wire_received :
          wire_received[i].kind = "ApprovalRequest" /\ wire_received[i].id = r
    /\ ObserverResolves(r)

\* the task that awaits wait() on the emitted request r resumes
WireWait(r) ==
    /\ r \in Emitted(wire_sends)
    /\ ApprovalWait(r)

NextWire ==
    \/ \E merge \in BOOLEAN : RunSoulStart(merge)
    \/ \E msg \in Sendables : WireSend(msg)
    \/ RunSoulCancel
    \/ \E r \in RequestIds : WireWaitCancel(r)
    \/ SoulDone
    \/ \E immediate \in BOOLEAN : WireShutdown(immediate)
    \/ UIReceive
    \/ UIEnd
    \/ UITimeout
    \/ \E r \in RequestIds : WireObserverResolves(r)
    \/ \E r \in RequestIds : WireWait(r)

SpecWire == Init /\ [][NextWire]_vars

(***************************************************************************)
(* Calls on one DenwaRenji: SpecDenwaRenji                                 *)
(***************************************************************************)
\* the record of a call: the DenwaRenji before and after it, what it raised
\* and what it returned
DMailCall(op, dmail, n, raised, ret, after) ==
    [op |-> op, dmail |-> dmail, n |-> n, raised |-> raised, ret |-> ret,
     before |-> denwa_renji, after |-> after]

SendDMail(dmail) ==
    /\ Len(dmail_calls) < MaxDMailCalls
    /\ LET r == send_dmail(denwa_renji, dmail)
       IN  /\ denwa_renji' = r.self
           /\ dmail_calls' = Append(dmail_calls,
                                   DMailCall("send_dmail", dmail, 0, r.raised, NoDMail, r.self))
    /\ UNCHANGED nonDenwaVars

SetNCheckpoints(n) ==
    /\ Len(dmail_calls) < MaxDMailCalls
    /\ LET after == set_n_checkpoints(denwa_renji, n)
       IN  /\ denwa_renji' = after
           /\ dmail_calls' = Append(dmail_calls,
                                   DMailCall("set_n_checkpoints", NoDMail, n, "none", NoDMail,
                                             after))
    /\ UNCHANGED nonDenwaVars

FetchPendingDMail ==
    /\ Len(dmail_calls) < MaxDMailCalls
    /\ LET r == fetch_pending_dmail(denwa_renji)
       IN  /\ denwa_renji' = r.self
           /\ dmail_calls' = Append(dmail_calls,
                                   DMailCall("fetch_pending_dmail", NoDMail, 0, "none", r.ret,
                                             r.self))
    /\ UNCHANGED nonDenwaVars

NextDenwaRenji ==
    \/ \E dmail \in DMails : SendDMail(dmail)
    \/ \E n \in CheckpointCounts : SetNCheckpoints(n)
    \/ FetchPendingDMail

SpecDenwaRenji == Init /\ [][NextDenwaRenji]_vars

(***************************************************************************)
(* A BroadcastQueue and its subscribers: SpecBroadcast                     *)
(***************************************************************************)
BQ == [queues |-> bc_queue, subscribed |-> bc_subscribed]

\* the queues that are shut down
ShutDown(queues) == {id \in DOMAIN queues : queues[id].shutdown # "no"}

\* what is kept of the call that changed the queues: the items put, per queue
Put(queues) ==
    [id \in SubscriberIds |->
        IF Len(queues[id].items) > Len(bc_queue[id].items)
        THEN Append(bc_put[id], queues[id].items[Len(queues[id].items)])
        ELSE bc_put[id]]

\* queue = bq.subscribe(), once per subscriber
BcSubscribe(id) ==
    /\ bc_window[id].from = -1
    /\ LET bq == BroadcastQueue_subscribe(BQ, id)
       IN  bc_queue' = bq.queues /\ bc_subscribed' = bq.subscribed
    /\ bc_window' = [bc_window EXCEPT ![id].from = Len(bc_published)]
    /\ UNCHANGED <<bc_published, bc_put, bc_got, nonBcastVars>>

\* bq.unsubscribe(queue)
BcUnsubscribe(id) ==
    /\ id \in bc_subscribed
    /\ LET bq == BroadcastQueue_unsubscribe(BQ, id)
       IN  bc_queue' = bq.queues /\ bc_subscribed' = bq.subscribed
    /\ bc_window' = [bc_window EXCEPT ![id].to = Len(bc_published)]
    /\ UNCHANGED <<bc_published, bc_put, bc_got, nonBcastVars>>

\* the call of publish or publish_nowait that gave r: item k is the k-th
\* item published
BcPublished(mode, r) ==
    /\ bc_queue' = r.bq.queues
    /\ bc_put' = Put(r.bq.queues)
    /\ bc_published' = Append(bc_published,
                              [mode |-> mode, raised |-> r.raised,
                               subscribed |-> bc_subscribed,
                               shut |-> ShutDown(bc_queue)])
    /\ UNCHANGED <<bc_subscribed, bc_window, bc_got, nonBcastVars>>

\* bq.publish_nowait(item)
BcPublishNowait(order) ==
    /\ Len(bc_published) < MaxPublishes
    /\ order \in Orders(bc_subscribed)
    /\ BcPublished("publish_nowait",
                   BroadcastQueue_publish_nowait_in(BQ, order, Len(bc_published) + 1))

\* await bq.publish(item)
BcPublish ==
    /\ Len(bc_published) < MaxPublishes
    /\ BcPublished("publish", BroadcastQueue_publish(BQ, Len(bc_published) + 1))

\* queue.shutdown(immediate) by the subscriber that holds the queue
BcQueueShutdown(id, immediate) ==
    /\ bc_window[id].from # -1
    /\ bc_queue[id].shutdown = "no"
    /\ bc_queue' = [bc_queue EXCEPT ![id] = Queue_shutdown(@, immediate)]
    /\ UNCHANGED <<bc_subscribed, bc_published, bc_put, bc_window, bc_got, nonBcastVars>>

\* bq.shutdown(immediate)
BcShutdown(immediate) ==
    /\ bc_subscribed # {}
    /\ LET bq == BroadcastQueue_shutdown(BQ, immediate)
       IN  bc_queue' = bq.queues /\ bc_subscribed' = bq.subscribed
    /\ bc_window' = [id \in SubscriberIds |->
                        IF id \in bc_subscribed
                        THEN [bc_window[id] EXCEPT !.to = Len(bc_published)]
                        ELSE bc_window[id]]
    /\ UNCHANGED <<bc_published, bc_put, bc_got, nonBcastVars>>

\* `await queue.get()` of a subscriber returns the oldest buffered item
BcGet(id) ==
    /\ bc_queue[id].items # <<>>
    /\ bc_got' = [bc_got EXCEPT ![id] = Append(@, Head(bc_queue[id].items))]
    /\ bc_queue' = [bc_queue EXCEPT ![id].items = Tail(@)]
    /\ UNCHANGED <<bc_subscribed, bc_published, bc_put, bc_window, nonBcastVars>>

NextBroadcast ==
    \/ \E id \in SubscriberIds : BcSubscribe(id)
    \/ \E id \in SubscriberIds : BcUnsubscribe(id)
    \/ \E order \in AllOrders : BcPublishNowait(order)
    \/ BcPublish
    \/ \E id \in SubscriberIds, immediate \in BOOLEAN : BcQueueShutdown(id, immediate)
    \/ \E immediate \in BOOLEAN : BcShutdown(immediate)
    \/ \E id \in SubscriberIds : BcGet(id)

SpecBroadcast == Init /\ [][NextBroadcast]_vars

(***************************************************************************)
(* The tool calls of one step and current_tool_call: SpecContext           *)
(***************************************************************************)
\* the task that runs the step starts: current_tool_call has its default, or,
\* when the step runs inside a tool's execution, that tool's call
ContextEnter(value) ==
    /\ ~ctx_entered
    /\ ctx_entered' = TRUE
    /\ ctx_dispatcher' = Context(value)
    /\ UNCHANGED <<ctx_dispatched, nonCtxVars>>

\* the step calls toolset.handle(tool_call): handle has no await, it runs as
\* a whole
ContextHandle(tool_call) ==
    /\ ctx_entered
    /\ Len(ctx_dispatched) < MaxDispatches
    /\ LET r == handle_in_context(ctx_dispatcher, tool_call, Len(ctx_dispatched) + 1)
       IN  /\ ctx_dispatcher' = r.ctx
           /\ ctx_dispatched' = Append(ctx_dispatched,
                                      [tool_call |-> tool_call, immediate |-> r.immediate,
                                       context |-> r.task_context,
                                       before |-> ctx_dispatcher, after |-> r.ctx,
                                       seen |-> <<>>])
    /\ UNCHANGED <<ctx_entered, nonCtxVars>>

\* the execution of the n-th tool call looks the current tool call up
ContextLookup(n) ==
    /\ n \in DOMAIN ctx_dispatched
    /\ ~ctx_dispatched[n].immediate
    /\ Len(ctx_dispatched[n].seen) < MaxLookups
    /\ ctx_dispatched' =
          [ctx_dispatched EXCEPT ![n].seen =
              Append(@, get_current_tool_call_or_none(ctx_dispatched[n].context))]
    /\ UNCHANGED <<ctx_entered, ctx_dispatcher, nonCtxVars>>

NextContext ==
    \/ \E value \in {NoToolCall, OuterToolCall} : ContextEnter(value)
    \/ \E tool_call \in ContextCalls : ContextHandle(tool_call)
    \/ \E n \in 1 .. MaxDispatches : ContextLookup(n)

SpecContext == Init /\ [][NextContext]_vars

(***************************************************************************)
(* load_mcp_tools and cleanup of one KimiToolset: SpecCleanup              *)
(***************************************************************************)
\* _connect() is running, in the loading task or inside load_mcp_tools
Connecting == mcp_loading_task = "running" \/ mcp_load = "connecting"

\* load_mcp_tools(mcp_configs, runtime, in_background) up to its last
\* statement: one MCPServerInfo per configured server, then the loading task is
\* created or _connect() is awaited
LoadMcpTools(n, in_background) ==
    /\ mcp_load = "init"
    /\ cleanup_pc = "idle"
    /\ mcp_servers' = [i \in 1 .. n |-> MCPServerInfo]
    /\ IF in_background
       THEN mcp_loading_task' = "running" /\ mcp_load' = "returned"
       ELSE mcp_load' = "connecting" /\ UNCHANGED mcp_loading_task
    /\ UNCHANGED <<cleanup_pc, nonCleanupVars>>

\* the task of _connect_server for server i starts
ConnectServerStart(i) ==
    /\ Connecting
    /\ i \in DOMAIN mcp_servers
    /\ mcp_servers[i].status = "pending"
    /\ mcp_servers' = [mcp_servers EXCEPT ![i].status = "connecting"]
    /\ UNCHANGED <<mcp_loading_task, mcp_load, cleanup_pc, nonCleanupVars>>

\* the task of _connect_server for server i ends: connected, or an Exception
\* was caught
ConnectServerEnd(i, ok) ==
    /\ Connecting
    /\ i \in DOMAIN mcp_servers
    /\ mcp_servers[i].status = "connecting"
    /\ mcp_servers' = [mcp_servers EXCEPT ![i].status = IF ok THEN "connected" ELSE "failed"]
    /\ UNCHANGED <<mcp_loading_task, mcp_load, cleanup_pc, nonCleanupVars>>

\* the gather of _connect() has completed and _connect() ends
ConnectEnd ==
    /\ Connecting
    /\ \A i \in DOMAIN mcp_servers : mcp_servers[i].status \in {"connected", "failed"}
    /\ IF mcp_loading_task = "running"
       THEN mcp_loading_task' = connect_end(mcp_servers) /\ UNCHANGED mcp_load
       ELSE /\ mcp_load' = IF connect_end(mcp_servers) = "failed" THEN "raised" ELSE "returned"
            /\ UNCHANGED mcp_loading_task
    /\ UNCHANGED <<mcp_servers, cleanup_pc, nonCleanupVars>>

\* cleanup() up to its first await: the loading task, if there is one, is
\* cancelled and awaited
CleanupStart ==
    /\ cleanup_pc = "idle"
    /\ mcp_load # "connecting"
    /\ IF mcp_loading_task # "none"
       THEN /\ mcp_loading_task' = Task_cancel(mcp_loading_task)
            /\ cleanup_pc' = "awaiting"
       ELSE /\ cleanup_pc' = "closing"
            /\ UNCHANGED mcp_loading_task
    /\ UNCHANGED <<mcp_servers, mcp_load, nonCleanupVars>>

\* the cancellation is delivered to _connect(), which awaits its gather: the
\* gather cancels the _connect_server tasks, and nothing in _connect() or
\* _connect_server catches CancelledError
LoadingCancelled ==
    /\ mcp_loading_task = "cancelling"
    /\ mcp_loading_task' = "cancelled"
    /\ UNCHANGED <<mcp_servers, mcp_load, cleanup_pc, nonCleanupVars>>

\* `await self._mcp_loading_task` ends
CleanupAwait ==
    /\ cleanup_pc = "awaiting"
    /\ mcp_loading_task \in {"done", "failed", "cancelled"}
    /\ cleanup_pc' = IF await_suppressing_Exception(mcp_loading_task) = "none"
                     THEN "closing" ELSE "raised"
    /\ UNCHANGED <<mcp_servers, mcp_loading_task, mcp_load, nonCleanupVars>>

\* `await server_info.client.close()` for the next server of _mcp_servers
CleanupClose(i) ==
    /\ cleanup_pc = "closing"
    /\ i \in DOMAIN mcp_servers
    /\ ~mcp_servers[i].closed
    /\ \A j \in 1 .. (i - 1) : mcp_servers[j].closed
    /\ mcp_servers' = [mcp_servers EXCEPT ![i].closed = TRUE]
    /\ UNCHANGED <<mcp_loading_task, mcp_load, cleanup_pc, nonCleanupVars>>

\* the loop over _mcp_servers is over: cleanup() returns
CleanupEnd ==
    /\ cleanup_pc = "closing"
    /\ \A i \in DOMAIN mcp_servers : mcp_servers[i].closed
    /\ cleanup_pc' = "returned"
    /\ UNCHANGED <<mcp_servers, mcp_loading_task, mcp_load, nonCleanupVars>>

NextCleanup ==
    \/ \E n \in 0 .. MaxServers, in_background \in BOOLEAN : LoadMcpTools(n, in_background)
    \/ \E i \in 1 .. MaxServers : ConnectServerStart(i)
    \/ \E i \in 1 .. MaxServers, ok \in BOOLEAN : ConnectServerEnd(i, ok)
    \/ ConnectEnd
    \/ CleanupStart
    \/ LoadingCancelled
    \/ CleanupAwait
    \/ \E i \in 1 .. MaxServers : CleanupClose(i)
    \/ CleanupEnd

SpecCleanup == Init /\ [][NextCleanup]_vars

(***************************************************************************)
(* run_soul and the three tasks it creates: SpecRunSoul                    *)
(***************************************************************************)
\* the states of a task that is done
TaskDone == {"returned", "failed", "cancelled", "QueueShutDown"}

\* what awaiting the soul task raises in run_soul: the CancelledError of a
\* cancelled task becomes RunCancelled, the soul's own exception is re-raised
soul_outcome(task) ==
    CASE task = "cancelled" -> "RunCancelled"
      [] task = "failed" -> "SoulError"
      [] OTHER -> "none"

\* the finally clause up to its await: wire.shutdown(), with the exception
\* of the try block in flight
finally_shutdown(inflight) ==
    /\ rs_wire' = "shut"
    /\ rs_inflight' = inflight
    /\ rs_pc' = "awaiting_ui"
    /\ rs_history' = [rs_history EXCEPT !.soul_done_at_shutdown = soul_task \in TaskDone]

\* run_soul up to `await asyncio.wait(...)`: the Wire is made and bound to
\* _current_wire, and the ui task, the soul task and the task of
\* cancel_event.wait() are created
RunSoulCall ==
    /\ rs_pc = "init"
    /\ rs_pc' = "waiting"
    /\ rs_wire' = "open"
    /\ current_wire' = "wire"
    /\ ui_task' = "running"
    /\ soul_task' = "running"
    /\ cancel_event_task' = "waiting"
    /\ UNCHANGED <<rs_error, rs_inflight, cancel_event, rs_history, nonRunVars>>

\* cancel_event.set(), by whoever holds the event
CancelEventSet ==
    /\ ~cancel_event
    /\ cancel_event' = TRUE
    /\ rs_history' = [rs_history EXCEPT !.fired_in_progress = soul_task = "running",
                                        !.soul_first = soul_task \in TaskDone]
    /\ UNCHANGED <<rs_pc, rs_error, rs_inflight, soul_task, ui_task, cancel_event_task,
                   rs_wire, current_wire, nonRunVars>>

\* the task of cancel_event.wait() returns
CancelEventTaskDone ==
    /\ cancel_event
    /\ cancel_event_task = "waiting"
    /\ cancel_event_task' = "returned"
    /\ UNCHANGED <<rs_pc, rs_error, rs_inflight, soul_task, ui_task, cancel_event,
                   rs_wire, current_wire, rs_history, nonRunVars>>

\* soul.run returns or raises on its own
SoulEnds(outcome) ==
    /\ soul_task = "running"
    /\ soul_task' = outcome
    /\ UNCHANGED <<rs_pc, rs_error, rs_inflight, ui_task, cancel_event, cancel_event_task,
                   rs_wire, current_wire, rs_history, nonRunVars>>

\* the cancelled soul task ends: soul.run raises CancelledError once its step
\* has cancelled and drained its handles
SoulCancelled ==
    /\ soul_task = "cancelling"
    /\ soul_task' = "cancelled"
    /\ UNCHANGED <<rs_pc, rs_error, rs_inflight, ui_task, cancel_event, cancel_event_task,
                   rs_wire, current_wire, rs_history, nonRunVars>>

\* asyncio.wait returns, and run_soul runs up to its next await: with the
\* event set the soul task is cancelled and awaited, otherwise the task of
\* cancel_event.wait() is
RunSoulResume ==
    /\ rs_pc = "waiting"
    /\ soul_task \in TaskDone \/ cancel_event_task = "returned"
    /\ IF cancel_event
       THEN /\ soul_task' = Task_cancel(soul_task)
            /\ rs_pc' = "awaiting_soul"
            /\ rs_history' = [rs_history EXCEPT !.cancelled_soul = soul_task = "running"]
            /\ UNCHANGED cancel_event_task
       ELSE /\ cancel_event_task' = "cancelled"
            /\ rs_pc' = "awaiting_cancel_event_task"
            /\ UNCHANGED <<soul_task, rs_history>>
    /\ UNCHANGED <<rs_error, rs_inflight, ui_task, cancel_event, rs_wire, current_wire,
                   nonRunVars>>

\* `await soul_task` ends, and the finally clause runs up to its await
RunSoulAwaitedSoul ==
    /\ rs_pc = "awaiting_soul"
    /\ soul_task \in TaskDone
    /\ finally_shutdown(soul_outcome(soul_task))
    /\ UNCHANGED <<rs_error, soul_task, ui_task, cancel_event, cancel_event_task,
                   current_wire, nonRunVars>>

\* `await cancel_event_task` ends, its CancelledError suppressed;
\* soul_task.result() returns or raises, and the finally clause runs up to
\* its await
RunSoulAwaitedCancelEventTask ==
    /\ rs_pc = "awaiting_cancel_event_task"
    /\ finally_shutdown(soul_outcome(soul_task))
    /\ UNCHANGED <<rs_error, soul_task, ui_task, cancel_event, cancel_event_task,
                   current_wire, nonRunVars>>

\* the ui task ends on its own: the ui loop returns or raises; once the Wire
\* is shut down its read of the channel raises QueueShutDown
UIEnds(outcome) ==
    /\ ui_task = "running"
    /\ outcome = "QueueShutDown" => rs_wire = "shut"
    /\ ui_task' = outcome
    /\ UNCHANGED <<rs_pc, rs_error, rs_inflight, soul_task, cancel_event, cancel_event_task,
                   rs_wire, current_wire, rs_history, nonRunVars>>

\* what run_soul raises after `await asyncio.wait_for(ui_task, timeout=0.5)`
\* of a ui task that is done: QueueShutDown is passed over, another exception
\* of the ui task takes the place of the one in flight
wait_for_ui_task(task, inflight) ==
    IF task = "failed" THEN "UIError" ELSE inflight

\* run_soul ends as error, the inner finally having reset _current_wire
RunSoulEnd(e) ==
    /\ current_wire' = "previous"
    /\ rs_error' = e
    /\ rs_pc' = IF e = "none" THEN "returned" ELSE "raised"

\* wait_for(ui_task) ends with the ui task done
RunSoulAwaitedUI ==
    /\ rs_pc = "awaiting_ui"
    /\ ui_task \in TaskDone
    /\ RunSoulEnd(wait_for_ui_task(ui_task, rs_inflight))
    /\ UNCHANGED <<rs_inflight, soul_task, ui_task, cancel_event, cancel_event_task,
                   rs_wire, rs_history, nonRunVars>>

\* wait_for times out: it cancels the ui task, waits for it and raises
\* TimeoutError, which run_soul catches
RunSoulUITimeout ==
    /\ rs_pc = "awaiting_ui"
    /\ ui_task = "running"
    /\ ui_task' = "cancelled"
    /\ RunSoulEnd(rs_inflight)
    /\ UNCHANGED <<rs_inflight, soul_task, cancel_event, cancel_event_task, rs_wire,
                   rs_history, nonRunVars>>

\* the task that runs run_soul is cancelled while run_soul awaits
\* asyncio.wait, which is outside the try statement: CancelledError is raised
\* from there, and asyncio.wait cancels none of the tasks it waits for
RunSoulCancelledWaiting ==
    /\ rs_pc = "waiting"
    /\ rs_pc' = "raised"
    /\ rs_error' = "CancelledError"
    /\ UNCHANGED <<rs_inflight, soul_task, ui_task, cancel_event, cancel_event_task,
                   rs_wire, current_wire, rs_history, nonRunVars>>

\* the task that runs run_soul is cancelled while run_soul awaits wait_for:
\* wait_for cancels the ui task, and the CancelledError passes the except
\* clauses and the inner finally
RunSoulCancelledAwaitingUI ==
    /\ rs_pc = "awaiting_ui"
    /\ ui_task' = IF ui_task = "running" THEN "cancelled" ELSE ui_task
    /\ RunSoulEnd("CancelledError")
    /\ UNCHANGED <<rs_inflight, soul_task, cancel_event, cancel_event_task, rs_wire,
                   rs_history, nonRunVars>>

NextRunSoul ==
    \/ RunSoulCall
    \/ CancelEventSet
    \/ CancelEventTaskDone
    \/ \E outcome \in {"returned", "failed"} : SoulEnds(outcome)
    \/ SoulCancelled
    \/ RunSoulResume
    \/ RunSoulAwaitedSoul
    \/ RunSoulAwaitedCancelEventTask
    \/ \E outcome \in {"returned", "failed", "QueueShutDown"} : UIEnds(outcome)
    \/ RunSoulAwaitedUI
    \/ RunSoulUITimeout
    \/ RunSoulCancelledWaiting
    \/ RunSoulCancelledAwaitingUI

SpecRunSoul == Init /\ [][NextRunSoul]_vars

(***************************************************************************)
(* Properties of step() and tool_results(), checked under Spec             *)
(***************************************************************************)
\* on_tool_call appends to tool_calls and to handles together: handle i is the
\* handle dispatched for tool_calls[i]
LastHandle == handles[Len(handles)]

\* C1: when tool_results() returns, the list has one ToolResult per tool call and
\* its i-th element is the result of the handle dispatched for the i-th tool
\* call, whatever the order in which the handles completed.
C1_ResultsFollowCallOrder ==
    (trPc = "done" /\ trOutcome = "returned") =>
        /\ Len(results) = Len(tool_calls)
        /\ \A i \in DOMAIN results : results[i].handle = i

\* C2: when the merge pass fails with a provider error or a cancellation after
\* tool calls were dispatched, the except clause cancels every handle created
\* so far, every handle created is terminal when step() raises, and the failure
\* raised is the one that was caught.
C2_FailedMergeDrainsEveryHandle ==
    /\ [][(caught = "none" /\ caught' \in {"ChatProviderError", "CancelledError"}) =>
             \A h \in DOMAIN handles :
                 handles[h].state = "pending" => handles'[h].state # "pending"]_vars
    /\ []((pc = "raised" /\ caught \in {"ChatProviderError", "CancelledError"}
                         /\ handles # <<>>) =>
             /\ \A h \in DOMAIN handles : handles[h].state \in Terminal
             /\ error = caught)

\* C3: whenever step() has raised, whatever the cause, no handle created during
\* the step is still pending.
C3_NoHandlePendingAfterRaise ==
    pc = "raised" => \A h \in DOMAIN handles : handles[h].state \in Terminal

\* C4: after step() returns, StepResult.tool_calls is the message's tool calls
\* and every tool call has exactly one handle of its own in the StepResult.
C4_EveryToolCallOwnsOneHandle ==
    pc = "returned" =>
        /\ tool_calls = message.tool_calls
        /\ Cardinality(Owned(tool_result_futures)) = Len(message.tool_calls)
        /\ \A i \in DOMAIN tool_calls : tool_result_futures[tool_calls[i].id] = i

\* a tool body raises in this step: handle h becomes faulted
Faults(h) == h \in DOMAIN handles /\ ~handles[h].faulted /\ handles'[h].faulted

\* C5: a fault raised in a tool body becomes a ToolRuntimeError result of that
\* call; the fault changes no sibling handle and makes neither step() nor
\* tool_results() raise, and a tool_results() that returns holds a result for
\* every tool call, each owned handle being resolved.
C5_ToolFaultIsIsolated ==
    /\ [](/\ \A h \in DOMAIN handles :
                /\ handles[h].state # "failed"
                /\ handles[h].faulted =>
                      /\ handles[h].state = "resolved"
                      /\ handles[h].return_value = "ToolRuntimeError"
          /\ trOutcome # "ToolFault"
          /\ (trPc = "done" /\ trOutcome = "returned") =>
                /\ Len(results) = Len(tool_calls)
                /\ \A h \in Owned(tool_result_futures) : handles[h].state = "resolved")
    /\ [][\A h \in DOMAIN handles : Faults(h) =>
             /\ \A g \in DOMAIN handles \ {h} : handles'[g] = handles[g]
             /\ pc' = pc /\ error' = error
             /\ trPc' = trPc /\ trOutcome' = trOutcome /\ results' = results]_vars

C5_Witness ==
    /\ trPc = "done" /\ trOutcome = "returned"
    /\ \E h, g \in Owned(tool_result_futures) :
          /\ handles[h].faulted
          /\ handles[g].return_value = "ToolOk"
          /\ results[h].return_value = "ToolRuntimeError"

\* C6: when tool_results() has finished, however it ended, every handle of the
\* StepResult is terminal; and a resolved handle stays resolved with its result.
C6_CollectionLeavesNoPendingHandle ==
    /\ [](trPc = "done" =>
             \A h \in Owned(tool_result_futures) : handles[h].state \in Terminal)
    /\ [][\A h \in DOMAIN handles : handles[h].state = "resolved" =>
             /\ handles'[h].state = "resolved"
             /\ handles'[h].return_value = handles[h].return_value]_vars

C6_Witness ==
    /\ trPc = "done" /\ trOutcome = "CancelledError"
    /\ \E h, g \in Owned(tool_result_futures) :
          /\ handles[h].state = "resolved" /\ handles[h].return_value = "ToolOk"
          /\ handles[g].state = "cancelled"

\* after the except clause of step() caught a failure, nothing is dispatched,
\* step() does not return and tool_results() is never called
NothingDispatchedAfterFailure ==
    caught # "none" =>
        /\ Len(handles') = Len(handles)
        /\ tool_calls' = tool_calls
        /\ pc' # "returned"
        /\ nCollects' = 0

\* C7 as stated: if the stream fails after tool call A was dispatched and before
\* a later tool call was seen, no later call is dispatched, no StepResult is
\* returned, A's handle ends cancelled and the stream failure is what is raised.
C7_HandleEndsCancelled ==
    /\ [][NothingDispatchedAfterFailure]_vars
    /\ []((pc = "raised" /\ caught = "ChatProviderError" /\ handles # <<>>) =>
             /\ LastHandle.state = "cancelled"
             /\ error = "ChatProviderError")

\* C7 amended: ... A's handle ends terminal: cancelled if it was pending when
\* the failure was caught, and still resolved with its result if it had already
\* resolved; the stream failure is what is raised, unless step() is cancelled
\* while it drains the handles, and then CancelledError is raised.
C7_HandleEndsTerminal ==
    /\ [][NothingDispatchedAfterFailure]_vars
    /\ [][(caught = "none" /\ caught' = "ChatProviderError" /\ handles # <<>>) =>
             /\ LastHandle.state = "pending" => handles'[Len(handles)].state = "cancelling"
             /\ LastHandle.state = "resolved" => handles'[Len(handles)] =
                                                    [LastHandle EXCEPT !.callback = FALSE]]_vars
    /\ [][(caught = "ChatProviderError" /\ handles # <<>>) =>
             /\ LastHandle.state = "cancelling" =>
                    handles'[Len(handles)].state \in {"cancelling", "cancelled"}
             /\ LastHandle.state \in {"resolved", "cancelled"} =>
                    handles'[Len(handles)] = LastHandle
             /\ error' # error => (pc = "draining" /\ error' = "CancelledError")]_vars
    /\ []((pc = "raised" /\ caught = "ChatProviderError" /\ handles # <<>>) =>
             /\ LastHandle.state \in {"cancelled", "resolved"}
             /\ error \in {"ChatProviderError", "CancelledError"})

C7_Witness ==
    /\ pc = "raised" /\ caught = "ChatProviderError" /\ error = "ChatProviderError"
    /\ handles # <<>>
    /\ LastHandle.state = "cancelled"

(***************************************************************************)
(* Properties of the merge engine, checked under SpecGen                   *)
(***************************************************************************)
\* the last position of the run of continuation fragments that follows position i
RECURSIVE RunEnd(_, _)
RunEnd(s, i) ==
    IF i < Len(s) /\ s[i + 1].kind = "tool_call_part" THEN RunEnd(s, i + 1) ELSE i

\* the argument deltas of the fragments at positions i..j, concatenated
RECURSIVE Deltas(_, _, _)
Deltas(s, i, j) ==
    IF i > j THEN <<>> ELSE OrEmpty(s[i].arguments_part) \o Deltas(s, i + 1, j)

\* the argument deltas of every continuation fragment from position k up to the
\* next tool-call start, whatever lies between them
RECURSIVE DeltasUntilNextCall(_, _)
DeltasUntilNextCall(s, k) ==
    IF k > Len(s) \/ s[k].kind = "tool_call" THEN <<>>
    ELSE (IF s[k].kind = "tool_call_part" THEN OrEmpty(s[k].arguments_part) ELSE <<>>)
         \o DeltasUntilNextCall(s, k + 1)

\* the number of tool calls started by the fragments at positions 1..i
NumToolCalls(s, i) == Cardinality({k \in 1..i : s[k].kind = "tool_call"})

\* C8: generate() raises APIEmptyResponseError exactly when the stream is
\* exhausted and the message has no content part and no tool call, which is
\* exactly when every fragment of the stream (if any) was an id-less
\* continuation fragment; otherwise it returns.
C8_EmptyResponseExactlyWhenNothingFinalized ==
    (pc \in {"returned", "raised"} /\ error # "ChatProviderError") =>
        /\ (error = "APIEmptyResponseError") <=> EmptyResponse(message)
        /\ (error = "APIEmptyResponseError") <=>
               \A i \in DOMAIN stream : stream[i].kind = "tool_call_part"
        /\ (pc = "returned") <=> (error = "none")
        /\ (pc = "raised") <=> (error = "APIEmptyResponseError")

C8_Witness ==
    /\ pc = "raised" /\ error = "APIEmptyResponseError"
    /\ Len(stream) >= 2

\* C9: a tool-call fragment followed by adjacent continuation fragments becomes
\* one ToolCall with the id and name of the starting fragment, whose arguments
\* are the starting arguments followed by the deltas in arrival order.
C9_ArgumentsAreConcatenated ==
    \A i \in DOMAIN stream : stream[i].kind = "tool_call" =>
        LET j == RunEnd(stream, i)
            m == NumToolCalls(stream, i)
            expected == OrEmpty(stream[i].arguments) \o Deltas(stream, i + 1, j)
            finalized == j < Len(stream) \/ pc = "returned"
            unit == IF m <= Len(message.tool_calls)
                    THEN message.tool_calls[m] ELSE pending_part
        IN /\ finalized <=> m <= Len(message.tool_calls)
           /\ unit.kind = "tool_call"
           /\ unit.id = stream[i].id
           /\ unit.name = stream[i].name
           /\ OrEmpty(unit.arguments) = expected
           /\ unit.arguments = NoneStr => expected = <<>>

C9_Witness ==
    /\ pc = "returned"
    /\ Len(stream) = 3
    /\ stream[1].kind = "tool_call" /\ stream[1].arguments = <<"{">>
    /\ stream[2] = ToolCallPart(<<"{">>)
    /\ stream[3] = ToolCallPart(<<"}">>)
    /\ message.tool_calls = <<ToolCall(stream[1].id, stream[1].name, <<"{", "{", "}">>)>>

\* C10 as stated: whenever a tool call was started before a continuation
\* fragment arrives, the fragment's delta ends up appended to the arguments of
\* the most recently started tool call.
C10_DeltaAlwaysReachesLastToolCall ==
    pc = "returned" =>
        \A i \in DOMAIN stream : stream[i].kind = "tool_call" =>
            LET m == NumToolCalls(stream, i) IN
            /\ m <= Len(message.tool_calls)
            /\ OrEmpty(message.tool_calls[m].arguments) =
                   OrEmpty(stream[i].arguments) \o DeltasUntilNextCall(stream, i + 1)

\* generate() consumes a continuation fragment in this step
ConsumesContinuation ==
    /\ Len(stream') = Len(stream) + 1
    /\ stream'[Len(stream')].kind = "tool_call_part"

\* C10 amended: a continuation fragment is appended to the most recently started
\* tool call exactly when that tool call is still the pending unit, that is when
\* only continuation fragments arrived since it started; any other continuation
\* fragment is discarded and changes no tool call.
C10_DeltaReachesPendingToolCall ==
    /\ [](/\ (pending_part.kind = "tool_call") <=>
                (\E i \in DOMAIN stream :
                    /\ stream[i].kind = "tool_call"
                    /\ \A k \in (i + 1)..Len(stream) : stream[k].kind = "tool_call_part")
          /\ \A i \in DOMAIN message.content : message.content[i].kind # "tool_call_part")
    /\ [][ConsumesContinuation =>
             IF pending_part.kind = "tool_call"
             THEN /\ pending_part'.kind = "tool_call"
                  /\ pending_part'.id = pending_part.id
                  /\ pending_part'.name = pending_part.name
                  /\ OrEmpty(pending_part'.arguments) =
                         OrEmpty(pending_part.arguments)
                         \o OrEmpty(stream'[Len(stream')].arguments_part)
                  /\ message' = message
             ELSE /\ pending_part'.kind = "tool_call_part"
                  /\ message'.tool_calls = message.tool_calls]_vars
    /\ [][\A i \in DOMAIN message.tool_calls :
             message'.tool_calls[i] = message.tool_calls[i]]_vars

C10_Witness ==
    /\ pending_part.kind = "tool_call"
    /\ pending_part.arguments = <<"{", "}">>
    /\ Len(stream) = 3
    /\ stream[1].kind = "text"
    /\ stream[3] = ToolCallPart(<<"}">>)

\* the last position of the run of text fragments that contains position i
RECURSIVE TextRunEnd(_, _)
TextRunEnd(s, i) ==
    IF i < Len(s) /\ s[i + 1].kind = "text" THEN TextRunEnd(s, i + 1) ELSE i

\* the texts of the fragments at positions i..j, concatenated
RECURSIVE Texts(_, _, _)
Texts(s, i, j) == IF i > j THEN <<>> ELSE s[i].text \o Texts(s, i + 1, j)

\* position i starts a maximal run of text fragments
StartsTextRun(s, i) == s[i].kind = "text" /\ (i = 1 \/ s[i - 1].kind # "text")

\* the number of maximal runs of text fragments that start at positions 1..i
NumTextRuns(s, i) == Cardinality({k \in 1..i : StartsTextRun(s, k)})

IsTextPart(p) == p.kind = "text"

\* the text parts of the message's content, in order
TextUnits(msg) == SelectSeq(msg.content, IsTextPart)

\* C11: every maximal run of adjacent text fragments becomes exactly one text
\* part whose text is the fragments' texts in arrival order: the n-th run is the
\* n-th text part of the content once a fragment of another kind or the end of
\* the stream has closed it, and the pending part before that; a fragment of any
\* other kind between two text fragments puts them in different parts.
C11_TextRunBecomesOneTextPart ==
    /\ Len(TextUnits(message)) <= NumTextRuns(stream, Len(stream))
    /\ \A i \in DOMAIN stream : StartsTextRun(stream, i) =>
          LET j == TextRunEnd(stream, i)
              n == NumTextRuns(stream, i)
              whole == TextPart(Texts(stream, i, j))
          IN  IF j < Len(stream) \/ pc = "returned"
              THEN /\ Len(TextUnits(message)) >= n
                   /\ TextUnits(message)[n] = whole
              ELSE /\ Len(TextUnits(message)) = n - 1
                   /\ pending_part = whole

C11_Witness ==
    /\ pc = "returned"
    /\ stream = <<TextPart(<<"a">>), TextPart(<<"b">>), ImageURLPart(<<"i">>)>>
    /\ message.content = <<TextPart(<<"a", "b">>), ImageURLPart(<<"i">>)>>

\* a think fragment arrives while a think part is pending
ThinkArrivesAtThink ==
    /\ Len(stream') = Len(stream) + 1
    /\ pending_part.kind = "think"
    /\ stream'[Len(stream')].kind = "think"

\* C12: a pending think part whose encrypted value is set (a non-empty string)
\* accepts no further merge: the next think fragment finalizes it unchanged and
\* starts a new part. A pending think part without one absorbs a think fragment:
\* the text is appended and the fragment's encrypted value, if set, is taken
\* over. So the encrypted value of a pending think part is that of the last
\* fragment merged into it.
C12_EncryptedThinkPartIsClosed ==
    /\ [][ThinkArrivesAtThink =>
            LET part == stream'[Len(stream')] IN
            IF Truthy(pending_part.encrypted)
            THEN /\ pending_part' = part
                 /\ message'.content = Append(message.content, pending_part)
            ELSE /\ message' = message
                 /\ pending_part'.think = pending_part.think \o part.think
                 /\ pending_part'.encrypted =
                        IF Truthy(part.encrypted) THEN part.encrypted
                        ELSE pending_part.encrypted]_vars
    /\ []((pending_part.kind = "think" /\ Truthy(pending_part.encrypted)) =>
             /\ stream[Len(stream)].kind = "think"
             /\ stream[Len(stream)].encrypted = pending_part.encrypted)

C12_Witness ==
    /\ stream = <<ThinkPart(<<"a">>, NoneStr), ThinkPart(<<"b">>, <<"s">>),
                  ThinkPart(<<"a">>, NoneStr)>>
    /\ message.content = <<ThinkPart(<<"a", "b">>, <<"s">>)>>
    /\ pending_part = ThinkPart(<<"a">>, NoneStr)

\* the number of runs of continuation fragments that no tool call precedes:
\* each is one pending part, which _message_append drops
OrphanUnits(s) ==
    Cardinality({k \in DOMAIN s :
                    /\ s[k].kind = "tool_call_part"
                    /\ (k = 1 \/ s[k - 1].kind \notin {"tool_call", "tool_call_part"})})

\* the number of parts the message holds: content parts and tool calls
NumUnits(msg) == Len(msg.content) + Len(msg.tool_calls)

\* C13 as stated: for a non-empty stream the message returned holds one part per
\* failed merge plus one for the final flush.
C13_UnitsAreCrossingsPlusOne ==
    (pc = "returned" /\ stream # <<>>) => NumUnits(message) = crossings + 1

\* C13, amended: when a non-empty stream is exhausted, the parts of the message
\* number the failed merges plus one for the final flush, less one for every
\* run of continuation fragments that no tool call precedes.
C13_UnitsAreCrossingsPlusOneLessOrphans ==
    ((pc = "returned" \/ error = "APIEmptyResponseError") /\ stream # <<>>) =>
        NumUnits(message) + OrphanUnits(stream) = crossings + 1

C13_Witness ==
    /\ pc = "returned"
    /\ crossings = 2
    /\ OrphanUnits(stream) = 1
    /\ NumUnits(message) = 2

(***************************************************************************)
(* Properties of the merge pass, checked under SpecLoop                    *)
(***************************************************************************)
\* s is an initial segment of t
IsPrefix(s, t) == Len(s) <= Len(t) /\ \A i \in DOMAIN s : s[i] = t[i]

\* C14: on_message_part receives every fragment, in stream order, and before the
\* fragment takes part in a merge or replaces the pending part; and the next
\* fragment is pulled only when the observer call for the current one and the
\* on_tool_call call it triggered have completed.
C14_ObservedBeforeMergedAndBeforeNextPull ==
    /\ [](IsPrefix(observed, stream) /\ Len(stream) <= Len(observed) + 1)
    /\ [][(pc = "streaming" /\ (pending_part' # pending_part \/ message' # message)) =>
             observed = stream]_vars
    /\ [][stream' # stream =>
             /\ observed = stream
             /\ tool_calls = message.tool_calls]_vars

C14_Witness ==
    /\ Len(stream) = 3
    /\ observed = stream
    /\ gpc = "merge"
    /\ Len(tool_calls) = 1
    /\ tool_calls = message.tool_calls

(***************************************************************************)
(* Properties of dispatch in step(), checked under Spec                    *)
(***************************************************************************)
\* C15: on_tool_call is called once for each tool call of the message, in the
\* order of message.tool_calls and in the step that appends the call; the call
\* it receives has the arguments of the whole run of continuation fragments,
\* and no later fragment changes a tool call on_tool_call has received.
C15_OnToolCallOncePerFinalizedCall ==
    /\ [](/\ tool_calls = message.tool_calls
          /\ pc = "returned" => Len(tool_calls) = NumToolCalls(stream, Len(stream))
          /\ (pc = "streaming" /\ pending_part.kind = "tool_call") =>
                 Len(tool_calls) = NumToolCalls(stream, Len(stream)) - 1
          /\ \A k \in DOMAIN stream :
                 LET n == NumToolCalls(stream, k) IN
                 (stream[k].kind = "tool_call" /\ n <= Len(tool_calls)) =>
                     /\ tool_calls[n].id = stream[k].id
                     /\ tool_calls[n].name = stream[k].name
                     /\ OrEmpty(tool_calls[n].arguments) =
                            OrEmpty(stream[k].arguments)
                                \o Deltas(stream, k + 1, RunEnd(stream, k)))
    /\ [][\A i \in DOMAIN tool_calls :
             /\ tool_calls'[i] = tool_calls[i]
             /\ message'.tool_calls[i] = message.tool_calls[i]]_vars

C15_Witness ==
    /\ pc = "streaming"
    /\ stream = <<ToolCall("c1", "t", <<"{">>), ToolCallPart(<<"}">>), TextPart(<<"a">>)>>
    /\ tool_calls = <<ToolCall("c1", "t", <<"{", "}">>)>>

\* C16 as stated: on_tool_result has been called once for every handle that is
\* terminal, however it ended, and not at all for a handle that is not.
C16_ListenerFiresOnEveryEnd ==
    \A h \in DOMAIN handles :
        handles[h].notified = IF handles[h].state \in Terminal THEN 1 ELSE 0

\* C16, amended: on_tool_result has been called once for every handle that is
\* resolved with a result, and not at all for a handle that is pending or that
\* ended cancelled.
C16_ListenerFiresOnResolutionOnly ==
    \A h \in DOMAIN handles :
        handles[h].notified = IF handles[h].state = "resolved" THEN 1 ELSE 0

C16_Witness ==
    \E h, g \in DOMAIN handles :
        /\ handles[h].task /\ handles[h].state = "resolved" /\ handles[h].notified = 1
        /\ handles[g].state = "cancelled" /\ handles[g].notified = 0

\* json.loads(arguments or "{}") raises JSONDecodeError
Unparseable(tool_call) ==
    ~json_loads_ok(IF Truthy(tool_call.arguments) THEN tool_call.arguments ELSE <<"{", "}">>)

\* C17: a finalized tool call for a registered tool whose arguments do not parse
\* has a handle that is no task, resolved at once with ToolParseError; the step
\* that dispatches it raises nothing, and every finalized tool call, before or
\* after it, has its handle.
C17_UnparseableArgumentsGiveParseError ==
    /\ [](/\ Len(handles) = Len(message.tool_calls)
          /\ \A i \in DOMAIN tool_calls :
                 (tool_calls[i].name \in tool_dict /\ Unparseable(tool_calls[i])) =>
                     /\ ~handles[i].task
                     /\ ~handles[i].faulted
                     /\ handles[i].state = "resolved"
                     /\ handles[i].return_value = "ToolParseError")
    /\ [][(/\ Len(handles') = Len(handles) + 1
           /\ handles'[Len(handles')].return_value = "ToolParseError") =>
              /\ error' = "none"
              /\ pc' \in {"streaming", "returned"}]_vars

C17_Witness ==
    /\ pc = "returned"
    /\ Len(handles) = 2
    /\ handles[1].return_value = "ToolParseError"
    /\ handles[2].task /\ handles[2].return_value = "ToolOk"

\* C18: every pending tool task can return at once, whatever the state of the
\* handles dispatched before or after it, and its return changes no other handle.
C18_ToolTasksRunIndependently ==
    /\ [](\A h \in DOMAIN handles :
             (handles[h].task /\ handles[h].state = "pending") => ENABLED ToolReturn(h))
    /\ [][\A h \in DOMAIN handles :
             (handles[h].state = "pending" /\ handles'[h].state = "resolved") =>
                 \A g \in DOMAIN handles \ {h} : handles'[g] = handles[g]]_vars

C18_Witness ==
    /\ Len(handles) = 2
    /\ handles[1].task /\ handles[1].state = "pending"
    /\ handles[2].task /\ handles[2].state = "resolved" /\ handles[2].notified = 1

\* C19 as stated: nothing is dispatched while the stream is being consumed, and
\* tool_results() awaits handles only after step() has returned.
C19_NoDispatchWhileStreaming ==
    /\ pc = "streaming" => handles = <<>>
    /\ trPc # "idle" => pc = "returned"

\* C19, amended: a tool call is dispatched in the step that finalizes it, while
\* the stream is still being consumed; tool_results() awaits handles only after
\* step() has returned, and step() returns only when the stream is exhausted
\* and every tool call of the stream has been finalized.
C19_DispatchOverlapsStreamCollectionDoesNot ==
    /\ Len(handles) = Len(message.tool_calls)
    /\ trPc # "idle" => pc = "returned"
    /\ pc = "returned" => Len(message.tool_calls) = NumToolCalls(stream, Len(stream))

C19_Witness ==
    /\ pc = "streaming"
    /\ \E h \in DOMAIN handles :
          /\ handles[h].task
          /\ handles[h].state = "resolved"
          /\ handles[h].return_value = "ToolOk"

\* a step of tool_results(): one of its variables changes
CollectionStep == <<trPc, trIdx, results, trOutcome, nCollects>>' #
                      <<trPc, trIdx, results, trOutcome, nCollects>>

\* C29: once a call of tool_results() has returned a list, every handle of the
\* StepResult stays resolved, every later call that is not itself cancelled
\* returns, with an equal list, and no step of a later call changes any handle
\* or creates one.
C29_CollectionIsIdempotentAfterSuccess ==
    /\ [](first_return.done =>
              /\ \A h \in Owned(tool_result_futures) : handles[h].state = "resolved"
              /\ trOutcome \in {"none", "returned", "CancelledError"}
              /\ (trPc = "done" /\ trOutcome = "returned") => results = first_return.list)
    /\ [][(first_return.done /\ CollectionStep) => handles' = handles]_vars

C29_Witness ==
    /\ nCollects = 2
    /\ trPc = "done" /\ trOutcome = "returned"
    /\ first_return.done
    /\ Len(results) = 2
    /\ results[1].return_value # results[2].return_value

\* C33: a tool call whose name is not registered has, whatever its arguments
\* are, a handle that is no task, resolved at once with ToolNotFoundError and
\* notified once; and when tool_results() returns, the element at the call's
\* position is the result of that handle.
C33_UnknownToolGivesNotFound ==
    \A i \in DOMAIN tool_calls :
        tool_calls[i].name \notin tool_dict =>
            /\ ~handles[i].task
            /\ ~handles[i].faulted
            /\ handles[i].state = "resolved"
            /\ handles[i].return_value = "ToolNotFoundError"
            /\ handles[i].notified = 1
            /\ (trPc = "done" /\ trOutcome = "returned") =>
                  /\ Len(results) = Len(tool_calls)
                  /\ results[i].handle = i
                  /\ results[i].return_value = "ToolNotFoundError"

\* the part of C33 that does not depend on the lookup by tool-call id: the
\* lookup of the name precedes the parsing of the arguments, no task is
\* launched, and the handle is resolved and notified at once
C33_UnknownToolHandleIsResolved ==
    \A i \in DOMAIN tool_calls :
        tool_calls[i].name \notin tool_dict =>
            /\ ~handles[i].task
            /\ ~handles[i].faulted
            /\ handles[i].state = "resolved"
            /\ handles[i].return_value = "ToolNotFoundError"
            /\ handles[i].notified = 1
            /\ (trPc = "done" /\ trOutcome = "returned") => Len(results) = Len(tool_calls)

(***************************************************************************)
(* Properties of MCP tool calls, checked under SpecMCP                     *)
(***************************************************************************)
\* C30: when the deadline of call_tool expires, the task of the tool call ends
\* resolved with a ToolResult whose return value is the Timeout error; the task
\* does not fail, and no other outcome of call_tool is lost to it: whatever
\* call_tool does, the task ends resolved.
C30_DeadlineExpiryIsTimeoutResult ==
    \A c \in ToolCallIds :
        /\ mcp_handle[c].state # "failed"
        /\ mcp_outcome[c].deadline =>
              /\ mcp_pc[c] = "done"
              /\ mcp_handle[c].state = "resolved"
              /\ mcp_handle[c].return_value = "Timeout"
              /\ ~mcp_handle[c].faulted

C30_Witness ==
    /\ mcp_outcome["c1"].deadline
    /\ mcp_outcome["c1"].message = <<"T", "i", "m", "e", "d", " ", "o", "u", "t">>
    /\ mcp_handle["c1"].return_value = "Timeout"
    /\ mcp_handle["c2"].return_value = "ToolRuntimeError"

\* C31: the remote call is made only after the approval request was answered
\* with an approval: while the request is unanswered the tool is suspended and
\* no remote call has been made, and a tool whose request was rejected has ended
\* resolved with the Rejected error and never made the remote call.
C31_RemoteCallNeedsApproval ==
    \A c \in ToolCallIds :
        /\ mcp_called[c] => mcp_answer[c] = "approve"
        /\ (mcp_pc[c] = "calling" \/ mcp_outcome[c] # NoOutcome) => mcp_called[c]
        /\ mcp_answer[c] = "none" =>
              /\ ~mcp_called[c]
              /\ mcp_handle[c].state \in {"pending", "cancelled"}
              /\ mcp_handle[c].return_value = "none"
        /\ mcp_answer[c] = "reject" =>
              /\ ~mcp_called[c]
              /\ mcp_pc[c] = "done"
              /\ mcp_outcome[c] = NoOutcome
              /\ mcp_handle[c].state = "resolved"
              /\ mcp_handle[c].return_value = "ToolRejectedError"

C31_Witness ==
    /\ mcp_answer["c1"] = "reject"
    /\ mcp_handle["c1"].return_value = "ToolRejectedError"
    /\ mcp_pc["c2"] = "approval"
    /\ mcp_handle["c2"].state = "pending"

(***************************************************************************)
(* Properties of ApprovalRequest, checked under SpecApproval               *)
(***************************************************************************)
\* the resolve() calls on request r that did not raise
Accepted(r) == {i \in DOMAIN resolve_calls[r] : ~resolve_calls[r][i].raised}

\* resolve() is called on request r in this step
Resolves(r) == Len(resolve_calls'[r]) = Len(resolve_calls[r]) + 1

\* C20: resolve() on a request that is already resolved raises and changes
\* nothing: a resolved request has exactly one accepted resolve() call, the
\* first one made while it was pending, its result is the response of that call,
\* and that response is what wait() returns.
C20_SecondResolveIsRejected ==
    /\ [][\A r \in RequestIds :
             (Resolves(r) /\ approval_future[r].state = "resolved") =>
                 /\ resolve_calls'[r][Len(resolve_calls'[r])].raised
                 /\ approval_future'[r] = approval_future[r]
                 /\ wait_returned' = wait_returned]_vars
    /\ [](\A r \in RequestIds : approval_future[r].state = "resolved" =>
             /\ Cardinality(Accepted(r)) = 1
             /\ \A k \in Accepted(r) :
                    /\ approval_future[r].result = resolve_calls[r][k].response
                    /\ wait_returned[r] \in {"none", resolve_calls[r][k].response})

C20_Witness ==
    \E r \in RequestIds :
        /\ Len(resolve_calls[r]) = 2
        /\ ~resolve_calls[r][1].raised
        /\ resolve_calls[r][2].raised
        /\ resolve_calls[r][2].response # resolve_calls[r][1].response
        /\ wait_returned[r] = resolve_calls[r][1].response
        /\ resolved(r)

\* what wait() gives is the response of the one resolve() call that was accepted
ResumesWithTheResponse(r) ==
    wait_returned[r] \in Responses =>
        /\ approval_future[r].state = "resolved"
        /\ Cardinality(Accepted(r)) = 1
        /\ \A k \in Accepted(r) : wait_returned[r] = resolve_calls[r][k].response

\* C21 as stated: wait() ends only once the request is resolved, and with the
\* response passed to resolve(); with an observer that resolves every request,
\* every request is eventually resolved; no request is resolved twice.
C21_EveryRequestIsResolvedOnce ==
    /\ [](\A r \in RequestIds :
             /\ wait_returned[r] # "none" => approval_future[r].state = "resolved"
             /\ ResumesWithTheResponse(r)
             /\ Cardinality(Accepted(r)) <= 1)
    /\ \A r \in RequestIds : <>(approval_future[r].state = "resolved")

\* C21, amended: wait() ends only once the request is resolved or the waiting
\* task is cancelled, and after a resolution it returns the response passed to
\* resolve(); with an observer that resolves every request, every request is
\* eventually resolved or, when its waiter was cancelled first, cancelled; no
\* request is resolved twice.
C21_EveryRequestIsResolvedOnceOrCancelled ==
    /\ [](\A r \in RequestIds :
             /\ wait_returned[r] # "none" => approval_future[r].state # "pending"
             /\ wait_returned[r] = "CancelledError" <=>
                    (wait_returned[r] # "none" /\ approval_future[r].state = "cancelled")
             /\ ResumesWithTheResponse(r)
             /\ Cardinality(Accepted(r)) <= 1)
    /\ \A r \in RequestIds :
          <>(\/ approval_future[r].state = "resolved"
             \/ approval_future[r].state = "cancelled" /\ Accepted(r) = {})

C21_Witness ==
    /\ approval_future["r1"].state = "resolved"
    /\ wait_returned["r1"] = "reject"
    /\ resolve_calls["r1"] = <<[response |-> "reject", raised |-> FALSE]>>
    /\ approval_future["r2"].state = "cancelled"
    /\ wait_returned["r2"] = "CancelledError"
    /\ resolve_calls["r2"] = <<[response |-> "approve", raised |-> TRUE]>>

(***************************************************************************)
(* Properties of the envelope codec, checked under SpecCodec               *)
(***************************************************************************)
\* the fields of a message: everything but the private _future of a request
Fields(msg) ==
    IF msg.kind = "ApprovalRequest" THEN [msg EXCEPT !.future = "pending"] ELSE msg

\* the records replayed so far that this codec wrote
ReplayedOwn == {i \in DOMAIN codec_replayed : codec_sent[i] # NoMsg}

\* C23: decoding the envelope of a message gives a message of the same class
\* with equal fields, and the tag of the envelope is a registry name whose
\* type the message is an instance of.
C23_EnvelopeRoundTrip ==
    \A i \in ReplayedOwn :
        /\ codec_replayed[i].raised = "none"
        /\ codec_replayed[i].msg = Fields(codec_sent[i])
        /\ codec_log[i].type \in DOMAIN NAME_TO_WIRE_MESSAGE_TYPE
        /\ issubclass(class_name(codec_sent[i]), NAME_TO_WIRE_MESSAGE_TYPE[codec_log[i].type])

C23_Witness ==
    /\ Len(codec_replayed) = 2
    /\ codec_sent[1] = ThinkPart(<<"a">>, <<"s">>)
    /\ codec_log[1].type = "ContentPart"
    /\ codec_replayed[1].msg = codec_sent[1]
    /\ codec_sent[2].kind = "ApprovalRequest" /\ codec_sent[2].future = "approve"
    /\ codec_replayed[2].msg.kind = "ApprovalRequest"

UnknownTag(i) == codec_log[i].type \notin DOMAIN NAME_TO_WIRE_MESSAGE_TYPE

\* C24: decoding a record whose tag is not in the registry raises the
\* ValueError of to_wire_message and gives no message; the registry stays as it
\* was built, and a record of this codec decoded after such a failure decodes
\* without error.
C24_UnknownTagFailsThatDecodeOnly ==
    /\ codec_registry = NAME_TO_WIRE_MESSAGE_TYPE
    /\ \A i \in DOMAIN codec_replayed :
          UnknownTag(i) => /\ codec_replayed[i].raised = "ValueError"
                           /\ codec_replayed[i].msg = NoMsg
    /\ \A i, j \in DOMAIN codec_replayed :
          (i < j /\ UnknownTag(i) /\ codec_sent[j] # NoMsg)
              => /\ codec_replayed[j].raised = "none"
                 /\ codec_replayed[j].msg.kind = codec_sent[j].kind

C24_Witness ==
    /\ Len(codec_replayed) = 2
    /\ codec_log[1].type = "Heartbeat"
    /\ codec_replayed[1].raised = "ValueError"
    /\ codec_sent[2] = StepBegin(1)
    /\ codec_replayed[2] = [raised |-> "none", msg |-> StepBegin(1)]

RECURSIVE Depth(_)
\* how many SubagentEvents wrap the innermost event of a message
Depth(msg) == IF msg.kind = "SubagentEvent" THEN 1 + Depth(msg.event) ELSE 0

RECURSIVE NestedEnvelopes(_, _)
\* the record of msg holds, at every level, a whole envelope of the inner
\* event: the two keys type and payload, with the inner event's own tag
NestedEnvelopes(msg, envelope) ==
    msg.kind = "SubagentEvent" =>
        /\ envelope.type = "SubagentEvent"
        /\ DOMAIN envelope.payload = {"task_tool_call_id", "event"}
        /\ envelope.payload.task_tool_call_id = msg.task_tool_call_id
        /\ DOMAIN envelope.payload.event = {"type", "payload"}
        /\ envelope.payload.event.type = wire_typename(msg.event)
        /\ NestedEnvelopes(msg.event, envelope.payload.event)

\* C25: the record of a SubagentEvent holds its inner event as a whole nested
\* envelope, and decoding the record gives the same tool-call id and the same
\* inner event, at every depth of nesting.
C25_SubagentEventNestsEnvelopes ==
    /\ \A i \in DOMAIN codec_log :
          codec_sent[i] # NoMsg => NestedEnvelopes(codec_sent[i], codec_log[i])
    /\ \A i \in ReplayedOwn :
          codec_sent[i].kind = "SubagentEvent" =>
              /\ codec_replayed[i].raised = "none"
              /\ codec_replayed[i].msg.task_tool_call_id = codec_sent[i].task_tool_call_id
              /\ codec_replayed[i].msg.event = codec_sent[i].event

C25_Witness ==
    /\ Len(codec_replayed) >= 1
    /\ codec_sent[1].kind = "SubagentEvent"
    /\ Depth(codec_sent[1]) = MaxDepth
    /\ codec_replayed[1].msg = codec_sent[1]

(***************************************************************************)
(* Properties of the Wire, checked under SpecWire                          *)
(***************************************************************************)
\* the messages the Wire accepted, in the order they were sent
AcceptedSends ==
    LET idx == SelectSeq([i \in DOMAIN wire_sends |-> i], LAMBDA i : ~wire_sends[i].raised)
    IN  [k \in DOMAIN idx |-> wire_sends[idx[k]].msg]

RECURSIVE Coalesce(_, _)
\* the merge engine on a sequence: each message is merged into the pending one
\* when merge_in_place combines them, and finalizes it otherwise
Coalesce(pending, seq) ==
    IF seq = <<>> THEN Wire_flush(pending)
    ELSE IF pending = NoPart THEN Coalesce(Head(seq), Tail(seq))
    ELSE LET r == merge_in_place(pending, Head(seq))
         IN  IF r.ok THEN Coalesce(r.self, Tail(seq))
             ELSE <<pending>> \o Coalesce(Head(seq), Tail(seq))

Unmergeable(seq) == SelectSeq(seq, LAMBDA m : ~IsMergeable(m))

\* what the consumer side is given, the merge buffer counted once it is handed on
Delivered == wire_published \o Wire_flush(merge_buffer)

\* C27: with merge mode enabled, the merge engine gives the same units, in the
\* same order, for the sequence sent and for the sequence delivered; what is
\* delivered are those units, so only adjacent messages that merge_in_place
\* combines are combined; messages that are not mergeable, requests among
\* them, are delivered as sent and in the order sent.
C27_MergeModeKeepsTheInformation ==
    wire_merge =>
        /\ Coalesce(NoPart, Delivered) = Coalesce(NoPart, AcceptedSends)
        /\ Unmergeable(Delivered) = Unmergeable(AcceptedSends)
        /\ Len(Delivered) <= Len(AcceptedSends)
        /\ \A i \in DOMAIN Delivered :
              ~IsMergeable(Delivered[i]) \/
              \E j, k \in DOMAIN AcceptedSends :
                  /\ j <= k
                  /\ Coalesce(NoPart, SubSeq(AcceptedSends, j, k)) = <<Delivered[i]>>

C27_Witness ==
    /\ wire_merge
    /\ AcceptedSends = <<ToolCall("c1", "t", <<"{">>), ToolCallPart(<<"}">>), StepBegin(1)>>
    /\ wire_received = <<ToolCall("c1", "t", <<"{", "}">>), StepBegin(1)>>

\* a send attempted after the shutdown
LateSends == {i \in DOMAIN wire_sends : wire_shut # "no" /\ i > wire_snapshot.sends}

AcceptedDMails ==
    {i \in DOMAIN dmail_calls :
        dmail_calls[i].op = "send_dmail" /\ dmail_calls[i].raised = "none"}
FetchedDMails ==
    {i \in DOMAIN dmail_calls :
        dmail_calls[i].op = "fetch_pending_dmail" /\ dmail_calls[i].ret # NoDMail}

\* C38: send_dmail raises DenwaRenjiError exactly when a D-Mail is pending,
\* when the checkpoint id is negative or when it is not below the number of
\* checkpoints, and then leaves the DenwaRenji as it was; otherwise the D-Mail
\* sent is the pending one.  A fetch returns the pending D-Mail and clears it:
\* every accepted D-Mail is fetched at most once, at most one is pending, and a
\* fetch with no accepted send since the fetch before it returns None.
C38_OnePendingDMailFetchedOnce ==
    /\ \A i \in DOMAIN dmail_calls :
          LET c == dmail_calls[i]
          IN  /\ c.op = "send_dmail" =>
                    /\ c.raised = "DenwaRenjiError" <=>
                           \/ c.before.pending_dmail # NoDMail
                           \/ c.dmail.checkpoint_id < 0
                           \/ c.dmail.checkpoint_id >= c.before.n_checkpoints
                    /\ c.raised = "DenwaRenjiError" => c.after = c.before
                    /\ c.raised = "none" =>
                           c.after = [c.before EXCEPT !.pending_dmail = c.dmail]
              /\ c.op = "fetch_pending_dmail" =>
                    /\ c.ret = c.before.pending_dmail
                    /\ c.after = [c.before EXCEPT !.pending_dmail = NoDMail]
    /\ Cardinality(AcceptedDMails) - Cardinality(FetchedDMails)
          = IF denwa_renji.pending_dmail = NoDMail THEN 0 ELSE 1
    /\ \A i, j \in DOMAIN dmail_calls :
          (/\ i < j
           /\ dmail_calls[i].op = "fetch_pending_dmail"
           /\ dmail_calls[j].op = "fetch_pending_dmail"
           /\ \A k \in AcceptedDMails : ~(i < k /\ k < j))
              => dmail_calls[j].ret = NoDMail

C38_Witness ==
    /\ Len(dmail_calls) = 4
    /\ dmail_calls[2].op = "send_dmail" /\ dmail_calls[2].raised = "none"
    /\ dmail_calls[3].op = "send_dmail" /\ dmail_calls[3].raised = "DenwaRenjiError"
    /\ dmail_calls[3].dmail.checkpoint_id = 0
    /\ dmail_calls[4].ret = DMail("m", 1)
    /\ denwa_renji.pending_dmail = NoDMail

\* C39: a pending D-Mail refers to an existing checkpoint: its checkpoint_id
\* is at least 0 and below the current number of checkpoints.
C39_PendingDMailRefersToCheckpoint ==
    denwa_renji.pending_dmail # NoDMail =>
        /\ denwa_renji.pending_dmail.checkpoint_id >= 0
        /\ denwa_renji.pending_dmail.checkpoint_id < denwa_renji.n_checkpoints

(***************************************************************************)
(* Properties of BroadcastQueue, checked under SpecBroadcast               *)
(***************************************************************************)
\* the k-th item published was put on queue id
PutOn(id, k) == \E i \in DOMAIN bc_put[id] : bc_put[id][i] = k

\* C32: a publish or publish_nowait made while a subscribed queue is shut down
\* on its own puts the item on every other subscribed queue.
C32_SubscribersAreIndependent ==
    \A k \in DOMAIN bc_published :
        \A id \in bc_published[k].subscribed \ bc_published[k].shut : PutOn(id, k)

\* the items published from a up to b, in publish order
Items(a, b) == [i \in 1 .. (b - a) |-> a + i]

\* C37: what was put on a queue is every item published between its subscribe
\* and its unsubscribe (or the shutdown of the BroadcastQueue), once each and in
\* publish order, and nothing else; what was put on it and not yet taken from it
\* is still in it, after as before the unsubscribe.
C37_DeliveryBetweenSubscribeAndUnsubscribe ==
    \A id \in SubscriberIds :
        /\ bc_put[id] = IF bc_window[id].from = -1 THEN <<>>
                        ELSE Items(bc_window[id].from,
                                   IF bc_window[id].to = -1 THEN Len(bc_published)
                                   ELSE bc_window[id].to)
        /\ bc_queue[id].shutdown # "immediate" => bc_put[id] = bc_got[id] \o bc_queue[id].items

(***************************************************************************)
(* Properties of current_tool_call, checked under SpecContext              *)
(***************************************************************************)
\* C36: every lookup inside the execution of a tool call returns the ToolCall
\* object that execution was dispatched for, whatever was dispatched before or
\* after it; and after every handle(), whether it created a task or returned an
\* immediate result, the dispatcher's binding is the one it had before.
C36_EachExecutionSeesItsOwnToolCall ==
    \A n \in DOMAIN ctx_dispatched :
        LET d == ctx_dispatched[n]
        IN  /\ d.after = d.before
            /\ ctx_dispatcher = d.before
            /\ \A k \in DOMAIN d.seen : d.seen[k] = ToolCallObject(d.tool_call, n)

C36_Witness ==
    /\ Len(ctx_dispatched) = 3
    /\ ctx_dispatcher = Context(OuterToolCall)
    /\ ctx_dispatched[1].tool_call = ToolCall("c1", "t", <<"{", "}">>)
    /\ ctx_dispatched[2].tool_call = ToolCall("c1", "u", <<"{", "}">>)
    /\ ctx_dispatched[2].immediate
    /\ ctx_dispatched[3].tool_call = ToolCall("c2", "t", <<"{", "}">>)
    /\ Len(ctx_dispatched[1].seen) = 2
    /\ Len(ctx_dispatched[3].seen) = 1

(***************************************************************************)
(* Properties of KimiToolset.cleanup, checked under SpecCleanup            *)
(***************************************************************************)
\* C40: when cleanup() has ended it has returned, no CancelledError of the
\* loading task having escaped it, the loading task is not running any more and
\* the client of every configured server has been closed.
C40_CleanupClosesEveryClient ==
    cleanup_pc \in {"returned", "raised"} =>
        /\ cleanup_pc = "returned"
        /\ mcp_loading_task \notin {"running", "cancelling"}
        /\ \A i \in DOMAIN mcp_servers : mcp_servers[i].closed

\* the cases of C40 in which the loading task is not running when cleanup()
\* is called: no CancelledError is raised, and every client is closed
C40_CleanupClosesEveryClientIfLoaded ==
    (cleanup_pc \in {"returned", "raised"} /\ mcp_loading_task # "cancelled") =>
        /\ cleanup_pc = "returned"
        /\ mcp_loading_task \in {"none", "done", "failed"}
        /\ \A i \in DOMAIN mcp_servers : mcp_servers[i].closed

(***************************************************************************)
(* Properties of run_soul, checked under SpecRunSoul                       *)
(***************************************************************************)
RunSoulEnded == rs_pc \in {"returned", "raised"}

\* C34: when the cancel event fired while the soul was running, run_soul has
\* cancelled the soul task and ends raising RunCancelled; when the soul had
\* finished on its own before the event fired, or the event never fired,
\* run_soul ends returning or raising the soul's own failure; and in either case
\* the Wire is shut down only when the soul task has finished.
C34_CancelEventEndsInRunCancelled ==
    /\ rs_wire = "shut" => rs_history.soul_done_at_shutdown
    /\ (RunSoulEnded /\ rs_history.fired_in_progress) =>
          /\ rs_history.cancelled_soul
          /\ soul_task = "cancelled"
          /\ rs_wire = "shut"
          /\ rs_error = "RunCancelled"
    /\ (/\ RunSoulEnded
        /\ soul_task \in {"returned", "failed"}
        /\ rs_history.soul_first \/ ~cancel_event) =>
          /\ rs_error = soul_outcome(soul_task)
          /\ rs_error # "RunCancelled"

\* C35: whenever run_soul has returned or raised, the Wire is shut down, the
\* binding of _current_wire is the one from before the call, and neither the
\* soul task nor the ui task is still running.
C35_RunSoulLeavesNothingBehind ==
    RunSoulEnded =>
        /\ rs_wire = "shut"
        /\ current_wire = "previous"
        /\ soul_task \in TaskDone
        /\ ui_task \in TaskDone

\* what holds of run_soul once it has resumed from asyncio.wait: the Wire is
\* shut down with the soul task done, RunCancelled is in flight exactly when
\* the soul task ended cancelled, and run_soul ends with the Wire shut down,
\* the binding restored and both tasks done, raising what was in flight unless
\* the ui task failed or run_soul was cancelled in wait_for
C34_C35_AfterResume ==
    /\ rs_wire = "shut" => rs_history.soul_done_at_shutdown
    /\ rs_pc = "awaiting_ui" => rs_inflight = soul_outcome(soul_task)
    /\ (RunSoulEnded /\ rs_wire = "shut") =>
          /\ current_wire = "previous"
          /\ soul_task \in TaskDone
          /\ ui_task \in TaskDone
          /\ rs_error \in {rs_inflight, "UIError", "CancelledError"}
          /\ rs_error = "UIError" => ui_task = "failed"
          /\ rs_history.cancelled_soul => soul_task = "cancelled"

====
